---- MODULE Spec2Model ----
(***************************************************************************)
(* subman: the latency-probing engine.                                     *)
(*                                                                         *)
(*   src/src/latency.rs  port allocator (get_test_port, reset_port_counter)*)
(*                       and the batch scheduler test_all_latencies        *)
(*   src/src/app.rs      the result sink (update_latency, cancel_test)     *)
(*   src/src/main.rs     the consumer loop of run_app                      *)
(*   src/src/config.rs   SavedNode, the persisted form of a node           *)
(*                                                                         *)
(* The specifications, all over one set of variables:                      *)
(*   Spec      one run of test_all_latencies: coordinator, workers, the    *)
(*             result channel, the consumer and cancel_test                *)
(*   FairSpec  Spec with the fairness the tokio scheduler gives the tasks  *)
(*   SpecSeq   one thread calling get_test_port / reset_port_counter one   *)
(*             call after the other (as tests::test_port_counter does)     *)
(*   SpecPort  several HTTP workers inside get_test_port at the same time, *)
(*             the counter close to its ceiling                            *)
(*   SpecRun   Spec without cancel_test; FairRun adds the fairness         *)
(*   SpecStop  Spec started from a view sorted by the column under test    *)
(*   SpecProbe one worker inside test_node_http_latency or                 *)
(*             test_node_tcp_latency, step by step; SpecUnwind adds a      *)
(*             panic while the ProcessGuard is alive                       *)
(*   SpecApp   the App operations on the canonical list and the view       *)
(*   SpecSort  the sort keys on lists with every latency status            *)
(*   SpecUI    Spec and the test keys: a second task of                    *)
(*             test_all_latencies beside the first                         *)
(*   SpecHttp  SpecUI when the first test key is 'T' and the list has one   *)
(*             node                                                        *)
(*   SpecRefresh  SpecUI and the refresh key, one node in the list         *)
(*   SpecChan  a batch larger than the result channel, the channel about   *)
(*             to fill; FairChan adds the fairness                         *)
(*   SpecFail  SpecRun with probes that may panic                          *)
(*   SpecSave  results applied, the list saved and loaded (config.rs)      *)
(***************************************************************************)
EXTENDS Integers, Sequences, FiniteSets, TLC

\* ------------------------------------------------------------- bounds
\* Largest node list handed to a batch, and largest max_concurrent.
MaxNodes == 2
\* The allocator specifications start the counter at the floor or at most
\* PortWindow below the ceiling.
PortWindow == 2
\* Number of allocator operations a sequential caller performs in SpecSeq.
MaxCalls == 6
\* Number of workers inside get_test_port at the same time in SpecPort.
MaxCallers == 3
\* Longest node list a subscription delivers to the App in SpecApp.
MaxAppNodes == 2
\* Longest node list whose view is sorted in SpecSort.
MaxSortLen == 4
\* Test batches the key handlers start in one run.
MaxBatches == 2
\* Nodes of a batch beyond the capacity of the result channel.
Surplus == 1
\* Longest node list a refresh of the subscription delivers in SpecRefresh.
MaxFetched == 1

\* -------------------------------------------------- program constants
\* static PORT_COUNTER: AtomicU16 = AtomicU16::new(10800)
PortFloor == 10800
\* if port > 60000
PortCeiling == 60000
\* AtomicU16: fetch_add wraps modulo 2^16
U16Modulus == 65536
\* mpsc::channel::<LatencyResult>(100)
ChannelCapacity == 100
\* wait_for_port: for _ in 0..20
WaitAttempts == 20

VARIABLES
    PORT_COUNTER,    \* latency.rs:16  the global AtomicU16
    portlog,         \* history: allocator operations in the order they returned
    node_count,      \* test_all_latencies: nodes.len()
    max_concurrent,  \* test_all_latencies: max_concurrent
    test_type,       \* test_all_latencies: test_type
    cancel_flag,     \* the batch's Arc<AtomicBool>
    permits,         \* free permits of the tokio Semaphore
    cpc,             \* coordinator: position in test_all_latencies
    index,           \* coordinator: next index of the enumerate() loop (= handles.len())
    joined,          \* coordinator: number of handles already awaited
    wpc,             \* worker task per node index: position in the spawned block
    wport,           \* worker: the local `port` of test_node_http_latency (0 = unset)
    wlat,            \* worker: the local `latency`
    chan,            \* the mpsc result channel (queued, not yet received)
    dispatched,      \* history: per node index, the probes begun for it
    enqueued,        \* history: per node index, the results sent for it
    late,            \* history: node indices whose send took effect after the token fired
    nodes,           \* App.nodes (canonical list)
    sorted_nodes,    \* App.sorted_nodes (sorted view)
    sort_column,     \* App.sort_column
    sort_direction,  \* App.sort_direction
    selected,        \* App.selected (position in the sorted view)
    testing,         \* App.testing
    current_test_type, \* App.current_test_type ("None" for Option::None)
    app_token,       \* App.cancel_flag: the identity of the Arc the App holds
    fired,           \* the Arcs (by identity) on which store(true) was performed
    drained,         \* run_app: try_recv has returned Empty since the last key was handled
    refreshing,      \* app.rs:110   App.refreshing
    subject,         \* test_all_latencies: the names of its nodes (the clone of App.nodes)
    origin,          \* history: for each queued result, the name of the node probed
    token,           \* the identity of the Arc the batch was started with
    batches,         \* number of batches the key handlers have started
    parked,          \* the task of the other batch, while two tasks exist
    ppc,             \* probe of worker 0: position inside the probe function
    ptrace,          \* history: the steps the probe of worker 0 has performed
    files,           \* ports p whose /tmp/xray_test_{p}.json exists
    child,           \* probe of worker 0: the xray helper process
    attempts,        \* wait_for_port: iterations of its loop completed
    presp            \* probe of worker 0: what the request or connect came to

vars == <<PORT_COUNTER, portlog, node_count, max_concurrent, test_type,
          cancel_flag, permits, cpc, index, joined, wpc, wport,
          wlat, chan, dispatched, enqueued, late, nodes, sorted_nodes, sort_column,
          sort_direction, selected, testing, current_test_type, app_token, fired, drained,
          refreshing, subject, origin, token,
          batches, parked, ppc, ptrace, files, child, attempts, presp>>

allocVars == <<PORT_COUNTER, portlog>>
paramVars == <<node_count, max_concurrent, test_type>>
coordVars == <<cpc, index, joined>>
histVars == <<dispatched, enqueued, late>>
appVars == <<nodes, sorted_nodes, sort_column, sort_direction, selected, testing,
             current_test_type>>
batchVars == <<app_token, fired, drained, refreshing, subject, origin, token, batches,
              parked>>
probeVars == <<ppc, ptrace, files, child, attempts, presp>>
auxVars == <<batchVars, probeVars>>

\* --------------------------------------------------- LatencyStatus
\* vmess.rs: enum LatencyStatus { NotTested, TimedOut, Success(u64) }
NotTested == [tag |-> "NotTested", ms |-> 0]
TimedOut == [tag |-> "TimedOut", ms |-> 0]
Success(ms) == [tag |-> "Success", ms |-> ms]

\* vmess.rs: LatencyStatus::is_tested
is_tested(l) == l.tag # "NotTested"

\* What a probe can return (latency.rs:127-132, 146-149): Success(ms) or
\* TimedOut. The scheduler and the channel carry the value without reading it,
\* so one elapsed time stands for all of them.
SampleMs == {42}
ProbeOutcomes == {TimedOut} \cup {Success(ms) : ms \in SampleMs}

\* ------------------------------------------------------ the result sink
\* A VmessNode as far as the sink reads it: the display name (as its rank in
\* lexicographic order) and the two latency fields.
VmessNode(name) == [name |-> name, tcp_latency |-> NotTested, http_latency |-> NotTested]

\* app.rs: struct IndexedNode { node, original_index }
IndexedNode(n, i) == [node |-> n, original_index |-> i]

\* Mutant of latency_sort_key: the keys of TimedOut and NotTested are exchanged.
latency_sort_key_Swapped(status) ==
    IF status.tag = "Success" THEN <<0, status.ms>>
    ELSE IF status.tag = "TimedOut" THEN <<2, 0>>
    ELSE <<1, 0>>

\* app.rs:447 latency_sort_key: (u8, u64)
latency_sort_key(status) ==
    IF status.tag = "Success" THEN <<0, status.ms>>
    ELSE IF status.tag = "TimedOut" THEN <<1, 0>>
    ELSE <<2, 0>>

\* Ord::cmp on (u8, u64) and on usize: -1 less, 0 equal, 1 greater.
cmp_int(a, b) == IF a < b THEN -1 ELSE IF a > b THEN 1 ELSE 0
cmp_key(a, b) == IF a[1] # b[1] THEN cmp_int(a[1], b[1]) ELSE cmp_int(a[2], b[2])

\* Mutant of compare_nodes: Descending reverses only the order of two Success
\* entries, so that timed-out and untested rows stay at the end.
compare_nodes_Pinned(a, b, column, direction) ==
    LET ka == latency_sort_key(IF column = "Tcp" THEN a.node.tcp_latency ELSE a.node.http_latency)
        kb == latency_sort_key(IF column = "Tcp" THEN b.node.tcp_latency ELSE b.node.http_latency)
        cmp == IF column = "None" THEN cmp_int(a.original_index, b.original_index)
               ELSE IF column = "Name" THEN cmp_int(a.node.name, b.node.name)
               ELSE cmp_key(ka, kb)
    IN  IF column \in {"Tcp", "Http"} /\ direction = "Descending" /\ ka[1] = 0 /\ kb[1] = 0
        THEN 0 - cmp
        ELSE IF column = "Name" /\ direction = "Descending" THEN 0 - cmp
        ELSE cmp

\* app.rs:461-497: the comparator apply_sort_to_nodes hands to sort_by /
\* sort_by_key, cmp.reverse() applied for Descending (not for SortColumn::None).
compare_nodes(a, b, column, direction) ==
    LET cmp == IF column = "None" THEN cmp_int(a.original_index, b.original_index)
               ELSE IF column = "Name" THEN cmp_int(a.node.name, b.node.name)
               ELSE IF column = "Tcp"
                    THEN cmp_key(latency_sort_key(a.node.tcp_latency),
                                 latency_sort_key(b.node.tcp_latency))
               ELSE cmp_key(latency_sort_key(a.node.http_latency),
                            latency_sort_key(b.node.http_latency))
    IN  IF column # "None" /\ direction = "Descending" THEN 0 - cmp ELSE cmp

\* app.rs:456 apply_sort_to_nodes. slice::sort_by and sort_by_key are stable
\* sorts: an element ends up behind exactly those elements that the comparator
\* puts before it, and those it compares equal to that stood before it.
apply_sort_to_nodes(s, column, direction) ==
    LET goes_before(i, j) ==
            LET c == compare_nodes(s[i], s[j], column, direction)
            IN  c < 0 \/ (c = 0 /\ i < j)
        rank(i) == Cardinality({j \in 1..Len(s) : goes_before(j, i)}) + 1
    IN  [p \in 1..Len(s) |-> s[CHOOSE i \in 1..Len(s) : rank(i) = p]]

\* app.rs:199 rebuild_sorted_view
rebuild_sorted_view(ns, column, direction) ==
    apply_sort_to_nodes([i \in 1..Len(ns) |-> IndexedNode(ns[i], i - 1)], column, direction)

\* app.rs:438 resort
resort(s, column, direction) ==
    IF column # "None" THEN apply_sort_to_nodes(s, column, direction) ELSE s

\* Mutant of set_latency: the result is keyed by the node index alone and is
\* written to both latency fields.
set_latency_BothFields(n, result) ==
    [n EXCEPT !.http_latency = result.latency, !.tcp_latency = result.latency]

\* Mutant of set_latency: writing one field returns the other to NotTested.
set_latency_Exclusive(n, result) ==
    IF result.test_type = "Http"
    THEN [n EXCEPT !.http_latency = result.latency, !.tcp_latency = NotTested]
    ELSE [n EXCEPT !.tcp_latency = result.latency, !.http_latency = NotTested]

\* app.rs:275-278, 286-289: the match on result.test_type
set_latency(n, result) ==
    IF result.test_type = "Http" THEN [n EXCEPT !.http_latency = result.latency]
    ELSE [n EXCEPT !.tcp_latency = result.latency]

\* Mutant of update_latency_nodes: an index past the end is clamped to the last
\* node instead of being ignored.
update_latency_nodes_Clamp(ns, result) ==
    IF Len(ns) = 0 THEN ns
    ELSE LET k == IF result.index + 1 > Len(ns) THEN Len(ns) ELSE result.index + 1
         IN  [ns EXCEPT ![k] = set_latency(@, result)]

\* app.rs:274-279 update_latency, canonical list: self.nodes.get_mut(result.index)
update_latency_nodes(ns, result) ==
    IF result.index + 1 \in 1..Len(ns)
    THEN [ns EXCEPT ![result.index + 1] = set_latency(@, result)]
    ELSE ns

\* app.rs:281-290 update_latency, sorted view: the first entry whose
\* original_index is result.index
update_latency_sorted(s, result) ==
    LET hit == {p \in 1..Len(s) : s[p].original_index = result.index}
    IN  IF hit = {} THEN s
        ELSE LET p == CHOOSE q \in hit : \A r \in hit : q <= r
             IN  [s EXCEPT ![p].node = set_latency(@, result)]

\* main.rs:111-118: count of view entries whose field of test_type is tested
tested_count(s, tt) ==
    Cardinality({p \in 1..Len(s) :
        IF tt = "Http" THEN is_tested(s[p].node.http_latency)
        ELSE is_tested(s[p].node.tcp_latency)})

\* What a request or a connect came to: nothing yet, an error, a timeout, or
\* (for a request) a response with a status code.
NoResponse == [kind |-> "none", status |-> 0]

\* The names of a list of nodes, in the order of the list.
names(ns) == [i \in 1..Len(ns) |-> ns[i].name]

\* No second task exists.
NoBatch == [live |-> FALSE]

\* One batch, started with the Arc the App holds; no probe function entered, no
\* config file in /tmp, no helper process.
IdleAux ==
    /\ app_token = 0
    /\ fired = {}
    /\ drained = TRUE
    /\ refreshing = FALSE
    /\ subject = [i \in 1..node_count |-> nodes[i].name]
    /\ origin = [i \in 1..Len(chan) |-> subject[chan[i].index + 1]]
    /\ token = 0
    /\ batches = 1
    /\ parked = NoBatch
    /\ ppc = "idle"
    /\ ptrace = <<>>
    /\ files = {}
    /\ child = "none"
    /\ attempts = 0
    /\ presp = NoResponse

\* ------------------------------------------------------ port allocator
\* Mutant of FetchAdd: the increment is lost (a load where fetch_add was meant).
FetchAdd_Lost(c) == c

\* AtomicU16::fetch_add(1): the new value of the counter
FetchAdd(c) == (c + 1) % U16Modulus

\* Counter values a thread can find when no call is in progress: the floor, or a
\* value the counter reaches from the floor by sequential calls.
PortStart == {PortFloor} \cup ((PortCeiling - PortWindow)..(PortCeiling + 1))

LogGet(port, wrapped) == [op |-> "get", port |-> port, wrapped |-> wrapped]
LogReset == [op |-> "reset", port |-> PortFloor, wrapped |-> FALSE]

\* Mutant of reset_port_counter: the store is missing.
reset_port_counter_NoStore ==
    /\ PORT_COUNTER' = PORT_COUNTER
    /\ portlog' = Append(portlog, LogReset)

\* latency.rs:36 reset_port_counter: PORT_COUNTER.store(10800)
reset_port_counter ==
    /\ PORT_COUNTER' = PortFloor
    /\ portlog' = Append(portlog, LogReset)

\* latency.rs:27-28 get_test_port, first half: fetch_add, then the test of the
\* value read. Above the ceiling the caller still has the store to do; otherwise
\* the call returns and its caller w continues at position `after`.
get_test_port_fetch(w, after) ==
    /\ wpc[w] = "getport"
    /\ LET port == PORT_COUNTER
       IN  /\ PORT_COUNTER' = FetchAdd(port)
           /\ IF port > PortCeiling
              THEN /\ wpc' = [wpc EXCEPT ![w] = "wrap"]
                   /\ UNCHANGED <<wport, portlog>>
              ELSE /\ wpc' = [wpc EXCEPT ![w] = after]
                   /\ wport' = [wport EXCEPT ![w] = port]
                   /\ portlog' = Append(portlog, LogGet(port, FALSE))

\* latency.rs:29-30 get_test_port, second half: store(10800); return 10800
get_test_port_store(w, after) ==
    /\ wpc[w] = "wrap"
    /\ PORT_COUNTER' = PortFloor
    /\ wpc' = [wpc EXCEPT ![w] = after]
    /\ wport' = [wport EXCEPT ![w] = PortFloor]
    /\ portlog' = Append(portlog, LogGet(PortFloor, TRUE))

\* ------------------------------------------- scheduler: the coordinator
Workers == DOMAIN wpc

\* Worker positions at which the task owns its OwnedSemaphorePermit.
HoldingPcs == {"start", "getport", "wrap", "probing", "settled", "send", "drop"}

\* latency.rs:168-171: reset_port_counter(); Semaphore::new(max_concurrent)
CoordReset ==
    /\ cpc = "reset"
    /\ reset_port_counter
    /\ permits' = max_concurrent
    /\ cpc' = "check"
    /\ UNCHANGED <<paramVars, auxVars, cancel_flag, index, joined, wpc, wport,
                   wlat, chan, histVars, appVars>>

\* Mutant of CoordCheck: the loop stops one node early.
CoordCheck_OffByOne ==
    /\ cpc = "check"
    /\ cpc' = IF index + 1 >= node_count THEN "join"
              ELSE IF cancel_flag THEN "join"
              ELSE "acquire"
    /\ UNCHANGED <<allocVars, paramVars, auxVars, cancel_flag, permits, index,
                   joined, wpc, wport, wlat, chan, histVars, appVars>>

\* latency.rs:173-177: the iterator yields the next (index, node) or ends the
\* loop; with a node in hand, cancel_flag.load() breaks out of the loop.
CoordCheck ==
    /\ cpc = "check"
    /\ cpc' = IF index >= node_count THEN "join"
              ELSE IF cancel_flag THEN "join"
              ELSE "acquire"
    /\ UNCHANGED <<allocVars, paramVars, auxVars, cancel_flag, permits, index,
                   joined, wpc, wport, wlat, chan, histVars, appVars>>

\* Mutant of CoordAcquire: the worker is spawned without waiting for a permit.
CoordAcquire_NoWait ==
    /\ cpc = "acquire"
    /\ permits' = permits - 1
    /\ wpc' = [wpc EXCEPT ![index] = "start"]
    /\ index' = index + 1
    /\ cpc' = "check"
    /\ UNCHANGED <<allocVars, paramVars, auxVars, cancel_flag, joined, wport,
                   wlat, chan, histVars, appVars>>

\* Mutant of CoordAcquire: the wait for a permit gives up when the token fires.
CoordAcquire_CancelAware ==
    /\ cpc = "acquire"
    /\ permits > 0 \/ cancel_flag
    /\ permits' = IF permits > 0 THEN permits - 1 ELSE permits
    /\ wpc' = IF permits > 0 THEN [wpc EXCEPT ![index] = "start"] ELSE wpc
    /\ index' = IF permits > 0 THEN index + 1 ELSE index
    /\ cpc' = IF permits > 0 THEN "check" ELSE "join"
    /\ UNCHANGED <<allocVars, paramVars, auxVars, cancel_flag, joined, wport,
                   wlat, chan, histVars, appVars>>

\* latency.rs:179-208: acquire_owned().await (waits while no permit is free),
\* tokio::spawn of the worker that now owns the permit, handles.push.
CoordAcquire ==
    /\ cpc = "acquire"
    /\ permits > 0
    /\ permits' = permits - 1
    /\ wpc' = [wpc EXCEPT ![index] = "start"]
    /\ index' = index + 1
    /\ cpc' = "check"
    /\ UNCHANGED <<allocVars, paramVars, auxVars, cancel_flag, joined, wport,
                   wlat, chan, histVars, appVars>>

\* Mutant of CoordJoin: the handle is dropped instead of awaited.
CoordJoin_NoAwait ==
    /\ cpc = "join"
    /\ joined < index
    /\ joined' = joined + 1
    /\ UNCHANGED <<allocVars, paramVars, auxVars, cancel_flag, permits, cpc,
                   index, wpc, wport, wlat, chan, histVars, appVars>>

\* latency.rs:212-214: handle.await for the next handle, in spawn order
CoordJoin ==
    /\ cpc = "join"
    /\ joined < index
    /\ wpc[joined] = "finished"
    /\ joined' = joined + 1
    /\ UNCHANGED <<allocVars, paramVars, auxVars, cancel_flag, permits, cpc,
                   index, wpc, wport, wlat, chan, histVars, appVars>>

\* latency.rs:215: every handle awaited, test_all_latencies returns
CoordReturn ==
    /\ cpc = "join"
    /\ joined = index
    /\ cpc' = "done"
    /\ UNCHANGED <<allocVars, paramVars, auxVars, cancel_flag, permits, index,
                   joined, wpc, wport, wlat, chan, histVars, appVars>>

\* ------------------------------------------------ scheduler: a worker
\* Mutant of WorkerStart: the start-of-task cancel check is missing.
WorkerStart_NoCheck(w) ==
    /\ wpc[w] = "start"
    /\ wpc' = [wpc EXCEPT ![w] = IF test_type = "Http" THEN "getport" ELSE "probing"]
    /\ dispatched' = [dispatched EXCEPT ![w] = @ + 1]
    /\ UNCHANGED <<allocVars, paramVars, auxVars, cancel_flag, permits,
                   coordVars, wport, wlat, chan, enqueued, late, appVars>>

\* Mutant of WorkerStart: a TCP probe takes a port from the allocator as well.
WorkerStart_AlwaysPort(w) ==
    /\ wpc[w] = "start"
    /\ wpc' = [wpc EXCEPT ![w] = IF cancel_flag THEN "drop" ELSE "getport"]
    /\ dispatched' = [dispatched EXCEPT ![w] = IF cancel_flag THEN @ ELSE @ + 1]
    /\ UNCHANGED <<allocVars, paramVars, auxVars, cancel_flag, permits,
                   coordVars, wport, wlat, chan, enqueued, late, appVars>>

\* latency.rs:185-193: the start-of-task cancel check; not cancelled, the probe
\* of test_type begins (the HTTP probe with get_test_port, latency.rs:88).
WorkerStart(w) ==
    /\ wpc[w] = "start"
    /\ wpc' = [wpc EXCEPT ![w] = IF cancel_flag THEN "drop"
                                 ELSE IF test_type = "Http" THEN "getport"
                                 ELSE "probing"]
    /\ dispatched' = [dispatched EXCEPT ![w] = IF cancel_flag THEN @ ELSE @ + 1]
    /\ UNCHANGED <<allocVars, paramVars, auxVars, cancel_flag, permits,
                   coordVars, wport, wlat, chan, enqueued, late, appVars>>

\* latency.rs:88 inside a worker: get_test_port up to its return or its store
WorkerGetPort(w) ==
    /\ get_test_port_fetch(w, "probing")
    /\ UNCHANGED <<paramVars, auxVars, cancel_flag, permits, coordVars, wlat,
                   chan, histVars, appVars>>

\* latency.rs:29-30 inside a worker
WorkerWrapStore(w) ==
    /\ get_test_port_store(w, "probing")
    /\ UNCHANGED <<paramVars, auxVars, cancel_flag, permits, coordVars, wlat,
                   chan, histVars, appVars>>

\* latency.rs:190-193: the probe settles with Success(ms) or TimedOut
WorkerProbe(w) ==
    /\ wpc[w] = "probing"
    /\ \E l \in ProbeOutcomes : wlat' = [wlat EXCEPT ![w] = l]
    /\ wpc' = [wpc EXCEPT ![w] = "settled"]
    /\ UNCHANGED <<allocVars, paramVars, auxVars, cancel_flag, permits,
                   coordVars, wport, chan, histVars, appVars>>

\* Mutant of WorkerCheckCancel: the discarding path leaves the block without
\* giving its permit back.
WorkerCheckCancel_Leak(w) ==
    /\ wpc[w] = "settled"
    /\ wpc' = [wpc EXCEPT ![w] = IF ~cancel_flag THEN "send" ELSE "finished"]
    /\ UNCHANGED <<allocVars, paramVars, auxVars, cancel_flag, permits,
                   coordVars, wport, wlat, chan, histVars, appVars>>

\* latency.rs:196: if !cancel.load()
WorkerCheckCancel(w) ==
    /\ wpc[w] = "settled"
    /\ wpc' = [wpc EXCEPT ![w] = IF ~cancel_flag THEN "send" ELSE "drop"]
    /\ UNCHANGED <<allocVars, paramVars, auxVars, cancel_flag, permits,
                   coordVars, wport, wlat, chan, histVars, appVars>>

LatencyResult(i, l, tt) == [index |-> i, latency |-> l, test_type |-> tt]

\* Mutant of WorkerSend: the channel is unbounded, a send never waits.
WorkerSend_Unbounded(w) ==
    /\ wpc[w] = "send"
    /\ chan' = Append(chan, LatencyResult(w, wlat[w], test_type))
    /\ enqueued' = [enqueued EXCEPT ![w] = @ + 1]
    /\ late' = IF cancel_flag THEN late \cup {w} ELSE late
    /\ wpc' = [wpc EXCEPT ![w] = "drop"]
    /\ origin' = Append(origin, subject[w + 1])
    /\ UNCHANGED <<allocVars, paramVars, app_token, fired, drained, refreshing, subject,
                   token, batches, parked, probeVars, cancel_flag, permits, coordVars,
                   wport, wlat, dispatched, appVars>>

\* latency.rs:197-203: tx.send(LatencyResult{..}).await, which waits while the
\* channel holds ChannelCapacity results
WorkerSend(w) ==
    /\ wpc[w] = "send"
    /\ Len(chan) < ChannelCapacity
    /\ chan' = Append(chan, LatencyResult(w, wlat[w], test_type))
    /\ enqueued' = [enqueued EXCEPT ![w] = @ + 1]
    /\ late' = IF cancel_flag THEN late \cup {w} ELSE late
    /\ wpc' = [wpc EXCEPT ![w] = "drop"]
    /\ origin' = Append(origin, subject[w + 1])
    /\ UNCHANGED <<allocVars, paramVars, app_token, fired, drained, refreshing, subject,
                   token, batches, parked, probeVars, cancel_flag, permits, coordVars,
                   wport, wlat, dispatched, appVars>>

\* latency.rs:186-187, 205-206: drop(permit), the last statement of the spawned
\* block on both of its paths: the permit returns to the semaphore, the block's
\* locals die and the task's JoinHandle resolves.
WorkerDropPermit(w) ==
    /\ wpc[w] = "drop"
    /\ permits' = permits + 1
    /\ wpc' = [wpc EXCEPT ![w] = "finished"]
    /\ wlat' = [wlat EXCEPT ![w] = NotTested]
    /\ wport' = [wport EXCEPT ![w] = 0]
    /\ UNCHANGED <<allocVars, paramVars, auxVars, cancel_flag, coordVars,
                   chan, histVars, appVars>>

\* Mutant of RecvResult: completion clears testing but does not re-sort.
RecvResult_NoResort ==
    /\ chan # <<>>
    /\ ~refreshing
    /\ \E result \in {Head(chan)} :
       \E view \in {update_latency_sorted(sorted_nodes, result)} :
           /\ nodes' = update_latency_nodes(nodes, result)
           /\ sorted_nodes' = view
           /\ IF tested_count(view, result.test_type) = Len(view)
              THEN testing' = FALSE /\ current_test_type' = "None"
              ELSE UNCHANGED <<testing, current_test_type>>
    /\ chan' = Tail(chan)
    /\ drained' = (Tail(chan) = <<>>)
    /\ origin' = Tail(origin)
    /\ UNCHANGED <<allocVars, paramVars, app_token, fired, refreshing, subject, token,
                   batches, parked,
                   probeVars, cancel_flag, permits, coordVars, wpc, wport, wlat,
                   histVars, sort_column, sort_direction, selected>>

\* ------------------------------------------------------- the consumer
\* main.rs:108-139: one iteration of `while let Ok(result) = try_recv()`:
\* (when it takes the last queued result, the try_recv after it may find the
\* channel empty, which ends the loop and lets the next key be read)
\* update_latency, the tested/total count over the view, and on tested = total
\* testing = false and resort. set_status and save_config write the status
\* line and the config file, which are not part of the state modelled here.
RecvResult ==
    /\ chan # <<>>
    /\ ~refreshing
    /\ \E result \in {Head(chan)} :
       \E view \in {update_latency_sorted(sorted_nodes, result)} :
           /\ nodes' = update_latency_nodes(nodes, result)
           /\ IF tested_count(view, result.test_type) = Len(view)
              THEN /\ testing' = FALSE
                   /\ current_test_type' = "None"
                   /\ sorted_nodes' = resort(view, sort_column, sort_direction)
              ELSE /\ UNCHANGED <<testing, current_test_type>>
                   /\ sorted_nodes' = view
    /\ chan' = Tail(chan)
    /\ drained' = (Tail(chan) = <<>>)
    /\ origin' = Tail(origin)
    /\ UNCHANGED <<allocVars, paramVars, app_token, fired, refreshing, subject, token,
                   batches, parked,
                   probeVars, cancel_flag, permits, coordVars, wpc, wport, wlat,
                   histVars, sort_column, sort_direction, selected>>

\* Workers whose probe has settled.
Settled == {w \in Workers : dispatched[w] > 0 /\ wpc[w] \in {"settled", "send", "drop", "finished"}}

\* Mutant of cancel_test: the App keeps the Arc it has just fired.
cancel_test_KeepArc ==
    /\ testing
    /\ drained /\ ~refreshing
    /\ drained' = (chan = <<>>)
    /\ cancel_flag' = (cancel_flag \/ token = app_token)
    /\ parked' = IF parked.live /\ parked.token = app_token
                 THEN [parked EXCEPT !.cancel_flag = TRUE] ELSE parked
    /\ fired' = fired \cup {app_token}
    /\ app_token' = app_token
    /\ testing' = FALSE
    /\ current_test_type' = "None"
    /\ UNCHANGED <<allocVars, paramVars, refreshing, subject, origin, token, batches,
                   probeVars, permits, coordVars, wpc, wport, wlat, chan, histVars,
                   nodes, sorted_nodes, sort_column, sort_direction, selected>>

\* main.rs:175-178 and app.rs:421-430 cancel_test: Ctrl+C while app.testing fires
\* the Arc the App holds, which every task started with that Arc observes,
\* clears testing and current_test_type and stores a fresh Arc in the App.
cancel_test ==
    /\ testing
    /\ drained /\ ~refreshing
    /\ drained' = (chan = <<>>)
    /\ cancel_flag' = (cancel_flag \/ token = app_token)
    /\ parked' = IF parked.live /\ parked.token = app_token
                 THEN [parked EXCEPT !.cancel_flag = TRUE] ELSE parked
    /\ fired' = fired \cup {app_token}
    /\ app_token' = app_token + 1
    /\ testing' = FALSE
    /\ current_test_type' = "None"
    /\ UNCHANGED <<allocVars, paramVars, refreshing, subject, origin, token, batches,
                   probeVars, permits, coordVars, wpc, wport, wlat, chan, histVars,
                   nodes, sorted_nodes, sort_column, sort_direction, selected>>

\* ------------------------------------------------------ specifications
\* The state in which main.rs:237-273 leaves the program when a test key has
\* started a batch: testing set, the latencies of the test type cleared, the
\* task of test_all_latencies spawned and not yet run.
Init ==
    /\ PORT_COUNTER \in PortStart
    /\ portlog = <<>>
    /\ node_count \in 1..MaxNodes
    /\ max_concurrent \in 0..MaxNodes
    /\ test_type \in {"Tcp", "Http"}
    /\ cancel_flag = FALSE
    /\ permits = 0
    /\ cpc = "reset"
    /\ index = 0
    /\ joined = 0
    /\ wpc = [w \in 0..(node_count - 1) |-> "none"]
    /\ wport = [w \in 0..(node_count - 1) |-> 0]
    /\ wlat = [w \in 0..(node_count - 1) |-> NotTested]
    /\ chan = <<>>
    /\ dispatched = [w \in 0..(node_count - 1) |-> 0]
    /\ enqueued = [w \in 0..(node_count - 1) |-> 0]
    /\ late = {}
    /\ nodes = [i \in 1..node_count |-> VmessNode(i)]
    /\ sort_column = "None"
    /\ sort_direction = "Ascending"
    /\ sorted_nodes = rebuild_sorted_view(nodes, sort_column, sort_direction)
    /\ selected = 0
    /\ testing = TRUE
    /\ current_test_type = test_type
    /\ IdleAux

Coordinator == CoordReset \/ CoordCheck \/ CoordAcquire \/ CoordJoin \/ CoordReturn

Worker(w) ==
    \/ WorkerStart(w)
    \/ WorkerGetPort(w)
    \/ WorkerProbe(w)
    \/ WorkerCheckCancel(w)
    \/ WorkerSend(w)
    \/ WorkerDropPermit(w)

\* The store of get_test_port is no step of Spec: a batch resets the counter
\* before it admits a worker and has far fewer nodes than ports, so that no
\* worker of it ever reads a value above the ceiling (NoWrapInBatch).
Next ==
    \/ CoordReset
    \/ CoordCheck
    \/ CoordAcquire
    \/ CoordJoin
    \/ CoordReturn
    \/ \E w \in Workers : WorkerStart(w)
    \/ \E w \in Workers : WorkerGetPort(w)
    \/ \E w \in Workers : WorkerProbe(w)
    \/ \E w \in Workers : WorkerCheckCancel(w)
    \/ \E w \in Workers : WorkerSend(w)
    \/ \E w \in Workers : WorkerDropPermit(w)
    \/ RecvResult
    \/ cancel_test

Spec == Init /\ [][Next]_vars

NoWrapInBatch == \A w \in Workers : wpc[w] # "wrap"

\* The tokio runtime runs every task that can run, a probe ends by itself (its
\* I/O is bounded by timeouts) and the consumer loop polls the channel every
\* 100 ms; the user is under no obligation to press Ctrl+C.
WorkerStep(w) == w \in Workers /\ Worker(w)

FairSpec ==
    /\ Spec
    /\ WF_vars(Coordinator)
    /\ \A w \in 0..(MaxNodes - 1) : WF_vars(WorkerStep(w))
    /\ WF_vars(RecvResult)

\* ------------------------------------------- a batch nobody cancels
\* The state in which main.rs:237-273 leaves the program when a test key has
\* started a batch while the view is sorted ascending by the column under
\* test, or is unsorted.
InitRun ==
    /\ PORT_COUNTER = PortFloor
    /\ portlog = <<>>
    /\ node_count \in 1..MaxNodes
    /\ max_concurrent \in 0..MaxNodes
    /\ test_type \in {"Tcp", "Http"}
    /\ cancel_flag = FALSE
    /\ permits = 0
    /\ cpc = "reset"
    /\ index = 0
    /\ joined = 0
    /\ wpc = [w \in 0..(node_count - 1) |-> "none"]
    /\ wport = [w \in 0..(node_count - 1) |-> 0]
    /\ wlat = [w \in 0..(node_count - 1) |-> NotTested]
    /\ chan = <<>>
    /\ dispatched = [w \in 0..(node_count - 1) |-> 0]
    /\ enqueued = [w \in 0..(node_count - 1) |-> 0]
    /\ late = {}
    /\ nodes = [i \in 1..node_count |-> VmessNode(i)]
    /\ sort_column \in {"None", test_type}
    /\ sort_direction = "Ascending"
    /\ sorted_nodes = rebuild_sorted_view(nodes, sort_column, sort_direction)
    /\ selected = 0
    /\ testing = TRUE
    /\ current_test_type = test_type
    /\ IdleAux

\* The user presses no key while the batch runs: every step is one of the
\* coordinator, of a worker or of the consumer.
NextRun ==
    \/ CoordReset
    \/ CoordCheck
    \/ CoordAcquire
    \/ CoordJoin
    \/ CoordReturn
    \/ \E w \in Workers : WorkerStart(w)
    \/ \E w \in Workers : WorkerGetPort(w)
    \/ \E w \in Workers : WorkerProbe(w)
    \/ \E w \in Workers : WorkerCheckCancel(w)
    \/ \E w \in Workers : WorkerSend(w)
    \/ \E w \in Workers : WorkerDropPermit(w)
    \/ RecvResult

SpecRun == InitRun /\ [][NextRun]_vars

FairRun ==
    /\ SpecRun
    /\ WF_vars(Coordinator)
    /\ \A w \in 0..(MaxNodes - 1) : WF_vars(WorkerStep(w))
    /\ WF_vars(RecvResult)

\* ---------------------------------------- sequential use of the allocator
\* One thread that calls get_test_port and reset_port_counter, each call
\* returning before the next begins (latency.rs:221-229 test_port_counter).
\* Slot 0 of the worker variables holds the thread: "getport" before a call,
\* "wrap" between the fetch_add and the store of a call.
InitSeq ==
    /\ PORT_COUNTER \in PortStart
    /\ portlog = <<>>
    /\ node_count = 1
    /\ max_concurrent = 1
    /\ test_type = "Http"
    /\ cancel_flag = FALSE
    /\ permits = 0
    /\ cpc = "join"
    /\ index = 1
    /\ joined = 0
    /\ wpc = [w \in {0} |-> "getport"]
    /\ wport = [w \in {0} |-> 0]
    /\ wlat = [w \in {0} |-> NotTested]
    /\ chan = <<>>
    /\ dispatched = [w \in {0} |-> 0]
    /\ enqueued = [w \in {0} |-> 0]
    /\ late = {}
    /\ nodes = <<VmessNode(1)>>
    /\ sort_column = "None"
    /\ sort_direction = "Ascending"
    /\ sorted_nodes = rebuild_sorted_view(nodes, sort_column, sort_direction)
    /\ selected = 0
    /\ testing = FALSE
    /\ current_test_type = "None"
    /\ IdleAux

schedVars == <<paramVars, auxVars, cancel_flag, permits, coordVars, wlat, chan, histVars, appVars>>

SeqGetFetch ==
    /\ Len(portlog) < MaxCalls
    /\ get_test_port_fetch(0, "getport")
    /\ UNCHANGED schedVars

SeqGetStore ==
    /\ get_test_port_store(0, "getport")
    /\ UNCHANGED schedVars

SeqReset ==
    /\ Len(portlog) < MaxCalls
    /\ wpc[0] = "getport"
    /\ reset_port_counter
    /\ UNCHANGED <<schedVars, wpc, wport>>

NextSeq == SeqGetFetch \/ SeqGetStore \/ SeqReset

SpecSeq == InitSeq /\ [][NextSeq]_vars

\* ---------------------------------------- concurrent use of the allocator
\* An HTTP batch whose workers have all passed their start-of-task check and
\* stand before get_test_port (latency.rs:88), the counter at the floor or
\* close to the ceiling. Here the store of get_test_port is a step.
InitPort ==
    /\ PORT_COUNTER \in PortStart
    /\ portlog = <<>>
    /\ node_count = MaxCallers
    /\ max_concurrent = MaxCallers
    /\ test_type = "Http"
    /\ cancel_flag = FALSE
    /\ permits = 0
    /\ cpc = "join"
    /\ index = node_count
    /\ joined = 0
    /\ wpc = [w \in 0..(node_count - 1) |-> "getport"]
    /\ wport = [w \in 0..(node_count - 1) |-> 0]
    /\ wlat = [w \in 0..(node_count - 1) |-> NotTested]
    /\ chan = <<>>
    /\ dispatched = [w \in 0..(node_count - 1) |-> 1]
    /\ enqueued = [w \in 0..(node_count - 1) |-> 0]
    /\ late = {}
    /\ nodes = [i \in 1..node_count |-> VmessNode(i)]
    /\ sort_column = "None"
    /\ sort_direction = "Ascending"
    /\ sorted_nodes = rebuild_sorted_view(nodes, sort_column, sort_direction)
    /\ selected = 0
    /\ testing = TRUE
    /\ current_test_type = test_type
    /\ IdleAux

NextPort ==
    \/ \E w \in Workers : WorkerGetPort(w)
    \/ \E w \in Workers : WorkerWrapStore(w)

SpecPort == InitPort /\ [][NextPort]_vars

\* ------------------------------------------------- inside one probe
\* The two probe functions step by step, for the worker of node 0. What the
\* file system, the helper process and the network answer is chosen by \E.
outsideProbe == <<allocVars, paramVars, batchVars, cancel_flag, permits, coordVars,
                  wport, chan, histVars, appVars>>

\* Status codes a relayed request can come back with.
HttpStatuses == {199, 200, 204, 299, 300, 404, 500}

\* http::StatusCode::is_success
is_success(code) == 200 <= code /\ code < 300

\* Mutant of classify: only 200 counts as success.
classify_Only200(resp, ms) ==
    IF resp.kind = "response" /\ resp.status = 200 THEN Success(ms) ELSE TimedOut

\* latency.rs:127-132: the match on the request's result
classify(resp, ms) ==
    IF resp.kind = "response" /\ (is_success(resp.status) \/ resp.status = 204)
    THEN Success(ms) ELSE TimedOut

\* Mutant of tcp_result: a connect that did not succeed leaves the status as it
\* was, NotTested.
tcp_result_NotTested(resp, ms) ==
    IF resp.kind = "connected" THEN Success(ms) ELSE NotTested

\* latency.rs:146-149: the match on the timeout-wrapped connect
tcp_result(resp, ms) ==
    IF resp.kind = "connected" THEN Success(ms) ELSE TimedOut

\* The probe function returns l to the spawned block (latency.rs:190-193).
probe_return(l, step) ==
    /\ wlat' = [wlat EXCEPT ![0] = l]
    /\ wpc' = [wpc EXCEPT ![0] = "settled"]
    /\ ppc' = "returned"
    /\ ptrace' = Append(ptrace, step)

\* latency.rs:47-53 and kill_on_drop(true): the ProcessGuard is dropped, its
\* Child is killed and the config file removed.
guard_drop ==
    /\ child' = "killed"
    /\ files' = files \ {wport[0]}

\* latency.rs:89-94: save_config_to_path. A write that fails may or may not
\* have created the file.
HttpWriteConfig ==
    /\ wpc[0] = "probing" /\ test_type = "Http" /\ ppc = "write"
    /\ \/ /\ files' = files \cup {wport[0]}
          /\ ppc' = "spawn"
          /\ ptrace' = Append(ptrace, "config_written")
          /\ UNCHANGED <<wpc, wlat>>
       \/ /\ files' \in {files, files \cup {wport[0]}}
          /\ probe_return(TimedOut, "config_write_failed")
    /\ UNCHANGED <<outsideProbe, child, attempts, presp>>

\* latency.rs:69-74 and 97-102: Command::spawn in start_xray; on its error the
\* caller removes the config file and returns TimedOut.
HttpSpawn ==
    /\ wpc[0] = "probing" /\ ppc = "spawn"
    /\ \/ /\ child' = "running"
          /\ ppc' = "wait"
          /\ ptrace' = Append(ptrace, "helper_spawned")
          /\ UNCHANGED <<wpc, wlat, files>>
       \/ /\ files' = files \ {wport[0]}
          /\ probe_return(TimedOut, "spawn_failed")
          /\ UNCHANGED child
    /\ UNCHANGED <<outsideProbe, attempts, presp>>

\* Mutant of HttpWaitAttempt: the loop has no bound.
HttpWaitAttempt_NoBound ==
    /\ wpc[0] = "probing" /\ ppc = "wait"
    /\ \/ /\ ppc' = "proxy"
          /\ ptrace' = Append(ptrace, "helper_ready")
          /\ UNCHANGED attempts
       \/ /\ attempts' = attempts + 1
          /\ UNCHANGED <<ppc, ptrace>>
    /\ UNCHANGED <<outsideProbe, wpc, wlat, files, child, presp>>

\* latency.rs:57-63 and 80-83: one iteration of wait_for_port; a connect that
\* succeeds ends the wait and start_xray builds the ProcessGuard.
HttpWaitAttempt ==
    /\ wpc[0] = "probing" /\ ppc = "wait"
    /\ attempts < WaitAttempts
    /\ \/ /\ ppc' = "proxy"
          /\ ptrace' = Append(ptrace, "helper_ready")
          /\ UNCHANGED attempts
       \/ /\ attempts' = attempts + 1
          /\ UNCHANGED <<ppc, ptrace>>
    /\ UNCHANGED <<outsideProbe, wpc, wlat, files, child, presp>>

\* Mutant of HttpWaitGiveUp: a helper that never became ready is used all the
\* same.
HttpWaitGiveUp_Proceed ==
    /\ wpc[0] = "probing" /\ ppc = "wait"
    /\ attempts = WaitAttempts
    /\ ppc' = "proxy"
    /\ ptrace' = Append(ptrace, "not_ready")
    /\ UNCHANGED <<outsideProbe, wpc, wlat, files, child, attempts, presp>>

\* Mutant of HttpWaitGiveUp: the Err branch returns without removing the file.
HttpWaitGiveUp_Leak ==
    /\ wpc[0] = "probing" /\ ppc = "wait"
    /\ attempts = WaitAttempts
    /\ child' = "killed"
    /\ probe_return(TimedOut, "not_ready")
    /\ UNCHANGED <<outsideProbe, files, attempts, presp>>

\* latency.rs:64, 76-78 and 97-102: the loop is exhausted, wait_for_port
\* returns false, start_xray drops the Child (kill_on_drop) and returns Err,
\* the caller removes the config file and returns TimedOut.
HttpWaitGiveUp ==
    /\ wpc[0] = "probing" /\ ppc = "wait"
    /\ attempts = WaitAttempts
    /\ child' = "killed"
    /\ files' = files \ {wport[0]}
    /\ probe_return(TimedOut, "not_ready")
    /\ UNCHANGED <<outsideProbe, attempts, presp>>

\* latency.rs:106-109: reqwest::Proxy::all
HttpProxy ==
    /\ wpc[0] = "probing" /\ ppc = "proxy"
    /\ \/ /\ ppc' = "client"
          /\ ptrace' = Append(ptrace, "proxy_built")
          /\ UNCHANGED <<wpc, wlat, files, child>>
       \/ /\ guard_drop
          /\ probe_return(TimedOut, "proxy_failed")
    /\ UNCHANGED <<outsideProbe, attempts, presp>>

\* latency.rs:111-118: reqwest::Client::builder()...build()
HttpClient ==
    /\ wpc[0] = "probing" /\ ppc = "client"
    /\ \/ /\ ppc' = "request"
          /\ ptrace' = Append(ptrace, "client_built")
          /\ UNCHANGED <<wpc, wlat, files, child>>
       \/ /\ guard_drop
          /\ probe_return(TimedOut, "client_failed")
    /\ UNCHANGED <<outsideProbe, attempts, presp>>

\* latency.rs:121-132: the request is sent and awaited, the elapsed time taken,
\* the result classified and returned; the guard is dropped on the way out.
HttpRequest ==
    /\ wpc[0] = "probing" /\ ppc = "request"
    /\ \E resp \in {[kind |-> k, status |-> 0] : k \in {"error", "timeout"}}
                   \cup {[kind |-> "response", status |-> c] : c \in HttpStatuses} :
       \E ms \in SampleMs :
            /\ presp' = resp
            /\ guard_drop
            /\ probe_return(classify(resp, ms), "request_sent")
    /\ UNCHANGED <<outsideProbe, attempts>>

\* latency.rs:136-150 test_node_tcp_latency
TcpConnect ==
    /\ wpc[0] = "probing" /\ test_type = "Tcp" /\ ppc = "connect"
    /\ \E resp \in {[kind |-> k, status |-> 0] : k \in {"connected", "error", "timeout"}} :
       \E ms \in SampleMs :
            /\ presp' = resp
            /\ probe_return(tcp_result(resp, ms), "connect_tried")
    /\ UNCHANGED <<outsideProbe, files, child, attempts>>

\* latency.rs:47-53: a panic in the library code that runs while the
\* ProcessGuard is alive unwinds through test_node_http_latency; the guard is
\* dropped and the worker task ends without a result.
HttpUnwind ==
    /\ wpc[0] = "probing" /\ ppc \in {"proxy", "client", "request"}
    /\ guard_drop
    /\ ppc' = "unwound"
    /\ ptrace' = Append(ptrace, "panicked")
    /\ wpc' = [wpc EXCEPT ![0] = "finished"]
    /\ permits' = permits + 1
    /\ UNCHANGED <<allocVars, paramVars, batchVars, cancel_flag, coordVars, wport,
                   chan, histVars, appVars, wlat, attempts, presp>>

\* latency.rs:183-193: the worker of a one-node batch has passed its start
\* check and enters the probe function of the batch's test type.
InitProbe ==
    /\ PORT_COUNTER \in PortStart
    /\ portlog = <<>>
    /\ node_count = 1
    /\ max_concurrent = 1
    /\ test_type \in {"Tcp", "Http"}
    /\ cancel_flag = FALSE
    /\ permits = 0
    /\ cpc = "join"
    /\ index = 1
    /\ joined = 0
    /\ wpc = [w \in {0} |-> IF test_type = "Http" THEN "getport" ELSE "probing"]
    /\ wport = [w \in {0} |-> 0]
    /\ wlat = [w \in {0} |-> NotTested]
    /\ chan = <<>>
    /\ dispatched = [w \in {0} |-> 1]
    /\ enqueued = [w \in {0} |-> 0]
    /\ late = {}
    /\ nodes = <<VmessNode(1)>>
    /\ sort_column = "None"
    /\ sort_direction = "Ascending"
    /\ sorted_nodes = rebuild_sorted_view(nodes, sort_column, sort_direction)
    /\ selected = 0
    /\ testing = TRUE
    /\ current_test_type = test_type
    /\ app_token = 0
    /\ fired = {}
    /\ drained = TRUE
    /\ refreshing = FALSE
    /\ subject = [i \in 1..node_count |-> nodes[i].name]
    /\ origin = [i \in 1..Len(chan) |-> subject[chan[i].index + 1]]
    /\ token = 0
    /\ batches = 1
    /\ parked = NoBatch
    /\ ppc = IF test_type = "Http" THEN "write" ELSE "connect"
    /\ ptrace = <<>>
    /\ files = {}
    /\ child = "none"
    /\ attempts = 0
    /\ presp = NoResponse

NextProbe ==
    \/ \E w \in Workers : WorkerGetPort(w)
    \/ \E w \in Workers : WorkerWrapStore(w)
    \/ HttpWriteConfig
    \/ HttpSpawn
    \/ HttpWaitAttempt
    \/ HttpWaitGiveUp
    \/ HttpProxy
    \/ HttpClient
    \/ HttpRequest
    \/ TcpConnect
    \/ \E w \in Workers : WorkerCheckCancel(w)
    \/ \E w \in Workers : WorkerSend(w)

SpecProbe == InitProbe /\ [][NextProbe]_vars

\* The same with a panic possible wherever the guard is alive.
NextUnwind == NextProbe \/ HttpUnwind

SpecUnwind == InitProbe /\ [][NextUnwind]_vars

\* --------------------------------------------------- the App operations
\* The methods of App the key handlers and the consumer call, each one a step.
\* A step leaves the scheduler, the channel and the allocator alone.
nonAppVars == <<allocVars, paramVars, auxVars, cancel_flag, permits, coordVars, wpc,
                wport, wlat, chan, histVars>>

\* app.rs:21 SortColumn::next
SortColumn_next(c) ==
    IF c = "None" THEN "Tcp" ELSE IF c = "Tcp" THEN "Http"
    ELSE IF c = "Http" THEN "Name" ELSE "None"

\* app.rs:60 SortDirection::toggle
SortDirection_toggle(d) == IF d = "Ascending" THEN "Descending" ELSE "Ascending"

\* app.rs:239 clamp_selection
clamp_selection(sel, len) ==
    IF len = 0 THEN 0 ELSE IF sel >= len THEN len - 1 ELSE sel

\* Iterator::position(|n| n.original_index == ai) on the view, as a 0-based
\* position; -1 for None.
position_of(s, ai) ==
    LET hit == {p \in 1..Len(s) : s[p].original_index = ai}
    IN  IF hit = {} THEN -1 ELSE (CHOOSE q \in hit : \A r \in hit : q <= r) - 1

\* Mutant of update_latency: the view entry is looked up by its position in the
\* view instead of by original_index.
update_latency_ByPosition(result) ==
    /\ nodes' = update_latency_nodes(nodes, result)
    /\ sorted_nodes' = IF result.index + 1 \in 1..Len(sorted_nodes)
                       THEN [sorted_nodes EXCEPT ![result.index + 1].node = set_latency(@, result)]
                       ELSE sorted_nodes
    /\ UNCHANGED <<sort_column, sort_direction, selected, testing, current_test_type>>

\* app.rs:272 update_latency
update_latency(result) ==
    /\ nodes' = update_latency_nodes(nodes, result)
    /\ sorted_nodes' = update_latency_sorted(sorted_nodes, result)
    /\ UNCHANGED <<sort_column, sort_direction, selected, testing, current_test_type>>

\* Mutant of set_nodes: the selection is left where it was.
set_nodes_KeepSelected(ns, active) ==
    /\ nodes' = ns
    /\ sorted_nodes' = rebuild_sorted_view(ns, sort_column, sort_direction)
    /\ UNCHANGED <<sort_column, sort_direction, selected, testing, current_test_type>>

\* app.rs:294 set_nodes. active is what read_active_node and
\* find_active_node_index make of the xray config file: an index of the new
\* list, or -1 for None.
set_nodes(ns, active) ==
    /\ nodes' = ns
    /\ sorted_nodes' = rebuild_sorted_view(ns, sort_column, sort_direction)
    /\ selected' = IF position_of(sorted_nodes', active) >= 0
                   THEN position_of(sorted_nodes', active) ELSE 0
    /\ UNCHANGED <<sort_column, sort_direction, testing, current_test_type>>

\* app.rs:314 clear_nodes
clear_nodes ==
    /\ nodes' = <<>>
    /\ sorted_nodes' = <<>>
    /\ selected' = 0
    /\ UNCHANGED <<sort_column, sort_direction, testing, current_test_type>>

\* Mutant of clear_http_latencies: the reset takes the TCP field along.
clear_http_latencies_Both ==
    /\ nodes' = [i \in 1..Len(nodes) |->
                    [nodes[i] EXCEPT !.http_latency = NotTested, !.tcp_latency = NotTested]]
    /\ sorted_nodes' = [p \in 1..Len(sorted_nodes) |->
                            [sorted_nodes[p] EXCEPT !.node.http_latency = NotTested,
                                                    !.node.tcp_latency = NotTested]]
    /\ UNCHANGED <<sort_column, sort_direction, selected, testing, current_test_type>>

\* app.rs:322 clear_http_latencies
clear_http_latencies ==
    /\ nodes' = [i \in 1..Len(nodes) |-> [nodes[i] EXCEPT !.http_latency = NotTested]]
    /\ sorted_nodes' = [p \in 1..Len(sorted_nodes) |->
                            [sorted_nodes[p] EXCEPT !.node.http_latency = NotTested]]
    /\ UNCHANGED <<sort_column, sort_direction, selected, testing, current_test_type>>

\* Mutant of clear_tcp_latencies: the sorted view is not cleared.
clear_tcp_latencies_CanonicalOnly ==
    /\ nodes' = [i \in 1..Len(nodes) |-> [nodes[i] EXCEPT !.tcp_latency = NotTested]]
    /\ UNCHANGED <<sorted_nodes, sort_column, sort_direction, selected, testing,
                   current_test_type>>

\* app.rs:332 clear_tcp_latencies
clear_tcp_latencies ==
    /\ nodes' = [i \in 1..Len(nodes) |-> [nodes[i] EXCEPT !.tcp_latency = NotTested]]
    /\ sorted_nodes' = [p \in 1..Len(sorted_nodes) |->
                            [sorted_nodes[p] EXCEPT !.node.tcp_latency = NotTested]]
    /\ UNCHANGED <<sort_column, sort_direction, selected, testing, current_test_type>>

\* app.rs:218 cycle_sort
cycle_sort ==
    /\ sort_column' = SortColumn_next(sort_column)
    /\ sort_direction' = "Ascending"
    /\ sorted_nodes' = apply_sort_to_nodes(sorted_nodes, sort_column', sort_direction')
    /\ selected' = clamp_selection(selected, Len(sorted_nodes'))
    /\ UNCHANGED <<nodes, testing, current_test_type>>

\* app.rs:227 toggle_sort_direction
toggle_sort_direction ==
    /\ IF sort_column = "None"
       THEN sort_column' = "Tcp" /\ sort_direction' = "Descending"
       ELSE sort_column' = sort_column /\ sort_direction' = SortDirection_toggle(sort_direction)
    /\ sorted_nodes' = apply_sort_to_nodes(sorted_nodes, sort_column', sort_direction')
    /\ UNCHANGED <<nodes, selected, testing, current_test_type>>

\* app.rs:248 select_previous
select_previous ==
    /\ selected' = IF Len(sorted_nodes) # 0 /\ selected > 0 THEN selected - 1 ELSE selected
    /\ UNCHANGED <<nodes, sorted_nodes, sort_column, sort_direction, testing,
                   current_test_type>>

\* app.rs:255 select_next
select_next ==
    /\ selected' = IF Len(sorted_nodes) # 0 /\ selected < Len(sorted_nodes) - 1
                   THEN selected + 1 ELSE selected
    /\ UNCHANGED <<nodes, sorted_nodes, sort_column, sort_direction, testing,
                   current_test_type>>

\* Node lists a subscription can deliver: n nodes, nothing tested yet, whose
\* display names are not in the order of the list (the first two are swapped).
NameRank(i) == IF i = 1 THEN 2 ELSE IF i = 2 THEN 1 ELSE i
NodeLists(n) == {[i \in 1..n |-> VmessNode(NameRank(i))]}

\* Results the channel can hand to update_latency: an index inside or outside
\* the current list, either test type, a probe outcome.
AppResults ==
    {LatencyResult(i, l, tt) : i \in 0..MaxAppNodes, l \in ProbeOutcomes, tt \in {"Tcp", "Http"}}

\* main.rs:110 app.update_latency(result)
AppUpdateLatency ==
    /\ \E result \in AppResults : update_latency(result)
    /\ UNCHANGED nonAppVars

\* main.rs:220 app.set_nodes(nodes)
AppSetNodes ==
    /\ \E n \in 0..MaxAppNodes : \E ns \in NodeLists(n) : \E active \in -1..(n - 1) :
        set_nodes(ns, active)
    /\ UNCHANGED nonAppVars

\* main.rs:213 app.clear_nodes()
AppClearNodes == clear_nodes /\ UNCHANGED nonAppVars

\* main.rs:242 app.clear_tcp_latencies()
AppClearTcp == clear_tcp_latencies /\ UNCHANGED nonAppVars

\* main.rs:261 app.clear_http_latencies()
AppClearHttp == clear_http_latencies /\ UNCHANGED nonAppVars

\* main.rs:197 app.cycle_sort()
AppCycleSort == cycle_sort /\ UNCHANGED nonAppVars

\* main.rs:201 app.toggle_sort_direction()
AppToggleSortDirection == toggle_sort_direction /\ UNCHANGED nonAppVars

\* main.rs:128 app.resort()
AppResort ==
    /\ sorted_nodes' = resort(sorted_nodes, sort_column, sort_direction)
    /\ UNCHANGED <<nonAppVars, nodes, sort_column, sort_direction, selected, testing,
                   current_test_type>>

\* main.rs:190 app.select_previous()
AppSelectPrevious == select_previous /\ UNCHANGED nonAppVars

\* main.rs:193 app.select_next()
AppSelectNext == select_next /\ UNCHANGED nonAppVars

\* app.rs:133 App::new: the node list and the sort settings come from the
\* config file, the view is built from the list and sorted, the selection is
\* the active node's position in the view (0 when there is none); no batch has been
\* started, so there is no scheduler task and the channel is empty.
InitApp ==
    /\ PORT_COUNTER = PortFloor
    /\ portlog = <<>>
    /\ node_count = 0
    /\ max_concurrent = 1
    /\ test_type = "Tcp"
    /\ cancel_flag = FALSE
    /\ permits = 0
    /\ cpc = "done"
    /\ index = 0
    /\ joined = 0
    /\ wpc = [w \in {} |-> "none"]
    /\ wport = [w \in {} |-> 0]
    /\ wlat = [w \in {} |-> NotTested]
    /\ chan = <<>>
    /\ dispatched = [w \in {} |-> 0]
    /\ enqueued = [w \in {} |-> 0]
    /\ late = {}
    /\ \E n \in 0..MaxAppNodes : nodes \in NodeLists(n)
    /\ sort_column \in {"None", "Name", "Tcp", "Http"}
    /\ sort_direction \in {"Ascending", "Descending"}
    /\ sorted_nodes = rebuild_sorted_view(nodes, sort_column, sort_direction)
    /\ \E active \in -1..(Len(nodes) - 1) :
          selected = IF position_of(sorted_nodes, active) >= 0
                     THEN position_of(sorted_nodes, active) ELSE 0
    /\ testing = FALSE
    /\ current_test_type = "None"
    /\ IdleAux

NextApp ==
    \/ AppUpdateLatency
    \/ AppSetNodes
    \/ AppClearNodes
    \/ AppClearTcp
    \/ AppClearHttp
    \/ AppCycleSort
    \/ AppToggleSortDirection
    \/ AppResort
    \/ AppSelectPrevious
    \/ AppSelectNext

SpecApp == InitApp /\ [][NextApp]_vars

\* ------------------------------------------------------ sorting the view
\* The latency values a column can hold when the view is sorted: untested,
\* timed out, and two different measured times.
SortStatuses == {NotTested, TimedOut, Success(10), Success(50)}

\* with_latency(n, column, l): node n with l in the field the column shows
with_latency(n, column, l) ==
    IF column = "Tcp" THEN [n EXCEPT !.tcp_latency = l] ELSE [n EXCEPT !.http_latency = l]

\* app.rs:133 App::new with sort settings absent from the config file: a list
\* of up to MaxSortLen nodes that carry in one latency field the values earlier
\* batches left there, the view in canonical order.
InitSort ==
    /\ PORT_COUNTER = PortFloor
    /\ portlog = <<>>
    /\ node_count = 0
    /\ max_concurrent = 1
    /\ test_type = "Tcp"
    /\ cancel_flag = FALSE
    /\ permits = 0
    /\ cpc = "done"
    /\ index = 0
    /\ joined = 0
    /\ wpc = [w \in {} |-> "none"]
    /\ wport = [w \in {} |-> 0]
    /\ wlat = [w \in {} |-> NotTested]
    /\ chan = <<>>
    /\ dispatched = [w \in {} |-> 0]
    /\ enqueued = [w \in {} |-> 0]
    /\ late = {}
    /\ \E n \in 0..MaxSortLen : \E column \in {"Tcp", "Http"} :
       \E ls \in [1..n -> SortStatuses] :
            nodes = [i \in 1..n |-> with_latency(VmessNode(NameRank(i)), column, ls[i])]
    /\ sort_column = "None"
    /\ sort_direction = "Ascending"
    /\ sorted_nodes = rebuild_sorted_view(nodes, sort_column, sort_direction)
    /\ selected = 0
    /\ testing = FALSE
    /\ current_test_type = "None"
    /\ IdleAux

NextSort ==
    \/ AppCycleSort
    \/ AppToggleSortDirection
    \/ AppResort

SpecSort == InitSort /\ [][NextSort]_vars

\* ------------------------------------------- the test keys: two tasks
\* The task in focus is the one the coordinator and worker variables describe;
\* `parked` holds the same variables of the other task. The allocator, the
\* result channel and the App are shared by both tasks.
Task(live) ==
    [live |-> live, node_count |-> node_count, max_concurrent |-> max_concurrent,
     test_type |-> test_type, cancel_flag |-> cancel_flag, permits |-> permits,
     cpc |-> cpc, index |-> index, joined |-> joined, wpc |-> wpc, wport |-> wport,
     wlat |-> wlat, dispatched |-> dispatched, enqueued |-> enqueued, late |-> late,
     token |-> token, subject |-> subject]

\* The latencies of one test type cleared in a list of nodes (app.rs:322-339).
cleared(n, tt) ==
    IF tt = "Http" THEN [n EXCEPT !.http_latency = NotTested]
    ELSE [n EXCEPT !.tcp_latency = NotTested]

\* main.rs:237-274: 't' (Tcp) or 'T' (Http) while no test runs and the view is
\* not empty and no refresh is under way: testing = true, the latencies of the type cleared,
\* and test_all_latencies spawned over a clone of App.nodes with the Arc the App
\* holds. The task spawned earlier is kept as `parked`.
StartTest(tt) ==
    /\ ~testing
    /\ ~refreshing
    /\ sorted_nodes # <<>>
    /\ drained
    /\ drained' = (chan = <<>>)
    /\ batches < MaxBatches
    /\ ~parked.live
    /\ testing' = TRUE
    /\ current_test_type' = tt
    /\ nodes' = [i \in 1..Len(nodes) |-> cleared(nodes[i], tt)]
    /\ sorted_nodes' = [p \in 1..Len(sorted_nodes) |->
                            [sorted_nodes[p] EXCEPT !.node = cleared(@, tt)]]
    /\ parked' = Task(TRUE)
    /\ batches' = batches + 1
    /\ node_count' = Len(nodes)
    /\ test_type' = tt
    /\ token' = app_token
    /\ cancel_flag' = (app_token \in fired)
    /\ permits' = 0
    /\ cpc' = "reset"
    /\ index' = 0
    /\ joined' = 0
    /\ wpc' = [w \in 0..(Len(nodes) - 1) |-> "none"]
    /\ wport' = [w \in 0..(Len(nodes) - 1) |-> 0]
    /\ wlat' = [w \in 0..(Len(nodes) - 1) |-> NotTested]
    /\ dispatched' = [w \in 0..(Len(nodes) - 1) |-> 0]
    /\ enqueued' = [w \in 0..(Len(nodes) - 1) |-> 0]
    /\ late' = {}
    /\ subject' = names(nodes)
    /\ UNCHANGED <<allocVars, max_concurrent, app_token, fired, refreshing, origin,
                   probeVars, chan, sort_column, sort_direction, selected>>

\* The tokio runtime runs the other task: the two tasks change places.
SwitchFocus ==
    /\ parked.live
    /\ parked' = Task(TRUE)
    /\ node_count' = parked.node_count
    /\ max_concurrent' = parked.max_concurrent
    /\ test_type' = parked.test_type
    /\ cancel_flag' = parked.cancel_flag
    /\ permits' = parked.permits
    /\ cpc' = parked.cpc
    /\ index' = parked.index
    /\ joined' = parked.joined
    /\ wpc' = parked.wpc
    /\ wport' = parked.wport
    /\ wlat' = parked.wlat
    /\ dispatched' = parked.dispatched
    /\ enqueued' = parked.enqueued
    /\ late' = parked.late
    /\ token' = parked.token
    /\ subject' = parked.subject
    /\ UNCHANGED <<allocVars, app_token, fired, drained, refreshing, origin, batches,
                   probeVars, chan, appVars>>

\* The program from the first test key on: Spec, and the test keys again.
NextUI ==
    \/ CoordReset
    \/ CoordCheck
    \/ CoordAcquire
    \/ CoordJoin
    \/ CoordReturn
    \/ \E w \in Workers : WorkerStart(w)
    \/ \E w \in Workers : WorkerGetPort(w)
    \/ \E w \in Workers : WorkerProbe(w)
    \/ \E w \in Workers : WorkerCheckCancel(w)
    \/ \E w \in Workers : WorkerSend(w)
    \/ \E w \in Workers : WorkerDropPermit(w)
    \/ RecvResult
    \/ cancel_test
    \/ \E tt \in {"Tcp", "Http"} : StartTest(tt)
    \/ SwitchFocus

\* The first test key after the program's start is 't', with --parallel 1: the
\* counter still holds its static initial value.
InitUI ==
    /\ Init
    /\ PORT_COUNTER = PortFloor
    /\ max_concurrent = 1
    /\ test_type = "Tcp"

SpecUI == InitUI /\ [][NextUI]_vars

\* --------------------------------------------- the channel when full
\* The workers that have not sent yet.
TailWorkers == (ChannelCapacity - 1)..(ChannelCapacity + Surplus - 1)

\* A TCP batch of ChannelCapacity + Surplus nodes with --parallel Surplus + 1,
\* between two polls of the consumer: the nodes before the tail have been
\* probed (all timed out), their results are queued and their handles
\* awaited; the tail workers have been spawned and hold all permits.
InitChan ==
    /\ PORT_COUNTER = PortFloor
    /\ portlog = <<LogReset>>
    /\ node_count = ChannelCapacity + Surplus
    /\ max_concurrent = Surplus + 1
    /\ test_type = "Tcp"
    /\ cancel_flag = FALSE
    /\ permits = 0
    /\ cpc = "join"
    /\ index = node_count
    /\ joined = ChannelCapacity - 1
    /\ wpc = [w \in 0..(node_count - 1) |-> IF w \in TailWorkers THEN "start" ELSE "finished"]
    /\ wport = [w \in 0..(node_count - 1) |-> 0]
    /\ wlat = [w \in 0..(node_count - 1) |-> NotTested]
    /\ chan = [i \in 1..(ChannelCapacity - 1) |-> LatencyResult(i - 1, TimedOut, test_type)]
    /\ dispatched = [w \in 0..(node_count - 1) |-> IF w \in TailWorkers THEN 0 ELSE 1]
    /\ enqueued = [w \in 0..(node_count - 1) |-> IF w \in TailWorkers THEN 0 ELSE 1]
    /\ late = {}
    /\ nodes = [i \in 1..node_count |-> VmessNode(i)]
    /\ sort_column = "None"
    /\ sort_direction = "Ascending"
    /\ sorted_nodes = rebuild_sorted_view(nodes, sort_column, sort_direction)
    /\ selected = 0
    /\ testing = TRUE
    /\ current_test_type = test_type
    /\ IdleAux

NextChan ==
    \/ CoordJoin
    \/ CoordReturn
    \/ \E w \in Workers : WorkerStart(w)
    \/ \E w \in Workers : WorkerProbe(w)
    \/ \E w \in Workers : WorkerCheckCancel(w)
    \/ \E w \in Workers : WorkerSend(w)
    \/ \E w \in Workers : WorkerDropPermit(w)
    \/ RecvResult

SpecChan == InitChan /\ [][NextChan]_vars

FairChan ==
    /\ SpecChan
    /\ WF_vars(Coordinator)
    /\ \A w \in TailWorkers : WF_vars(WorkerStep(w))
    /\ WF_vars(RecvResult)

\* ------------------------------------------------ a worker that fails
\* latency.rs:183-206 and 213: the probe of a worker panics. The spawned block
\* unwinds: its OwnedSemaphorePermit is dropped and returns to the semaphore,
\* nothing is sent, and the task's JoinHandle resolves to Err(JoinError),
\* which `let _ = handle.await` discards.
WorkerPanic(w) ==
    /\ wpc[w] = "probing"
    /\ permits' = permits + 1
    /\ wpc' = [wpc EXCEPT ![w] = "finished"]
    /\ wlat' = [wlat EXCEPT ![w] = NotTested]
    /\ wport' = [wport EXCEPT ![w] = 0]
    /\ UNCHANGED <<allocVars, paramVars, auxVars, cancel_flag, coordVars,
                   chan, histVars, appVars>>

\* A batch nobody cancels, in which probes may panic.
NextFail ==
    \/ CoordReset
    \/ CoordCheck
    \/ CoordAcquire
    \/ CoordJoin
    \/ CoordReturn
    \/ \E w \in Workers : WorkerStart(w)
    \/ \E w \in Workers : WorkerGetPort(w)
    \/ \E w \in Workers : WorkerProbe(w)
    \/ \E w \in Workers : WorkerPanic(w)
    \/ \E w \in Workers : WorkerCheckCancel(w)
    \/ \E w \in Workers : WorkerSend(w)
    \/ \E w \in Workers : WorkerDropPermit(w)
    \/ RecvResult

SpecFail == InitRun /\ [][NextFail]_vars

\* ------------------------------------------------------- persistence
\* Option<u64>: None is the empty sequence, Some(ms) the sequence of ms.
None == <<>>
Some(ms) == <<ms>>

\* config.rs:38-47: the (Option<u64>, bool) pair a latency status is saved as
saved_pair(status) ==
    IF status.tag = "Success" THEN <<Some(status.ms), FALSE>>
    ELSE IF status.tag = "TimedOut" THEN <<None, TRUE>>
    ELSE <<None, FALSE>>

\* Mutant of SavedNode_from: the timed_out flags are left at their default.
SavedNode_from_NoFlag(node) ==
    [name |-> node.name,
     http_latency |-> saved_pair(node.http_latency)[1], http_timed_out |-> FALSE,
     tcp_latency |-> saved_pair(node.tcp_latency)[1], tcp_timed_out |-> FALSE]

\* config.rs:36-69 impl From<&VmessNode> for SavedNode
SavedNode_from(node) ==
    [name |-> node.name,
     http_latency |-> saved_pair(node.http_latency)[1],
     http_timed_out |-> saved_pair(node.http_latency)[2],
     tcp_latency |-> saved_pair(node.tcp_latency)[1],
     tcp_timed_out |-> saved_pair(node.tcp_latency)[2]]

\* config.rs:73-86: the status a saved (Option<u64>, bool) pair is read as
loaded_status(latency, timed_out) ==
    IF latency # None THEN Success(latency[1])
    ELSE IF timed_out THEN TimedOut
    ELSE NotTested

\* config.rs:71-106 impl From<SavedNode> for VmessNode
VmessNode_from(saved) ==
    [name |-> saved.name,
     tcp_latency |-> loaded_status(saved.tcp_latency, saved.tcp_timed_out),
     http_latency |-> loaded_status(saved.http_latency, saved.http_timed_out)]

\* config.rs:165-167 Config::update_nodes
update_nodes(ns) == [i \in 1..Len(ns) |-> SavedNode_from(ns[i])]

\* config.rs:160-162 Config::to_vmess_nodes
to_vmess_nodes(saved) == [i \in 1..Len(saved) |-> VmessNode_from(saved[i])]

\* app.rs:381-392 save_config and, at the next start of the program,
\* app.rs:133-190 App::new: the canonical list is written as SavedNodes and
\* read back, the sort column comes back as saved, the direction only if a
\* column was set, and the view is rebuilt and sorted.
AppReload ==
    /\ ~testing
    /\ \E active \in -1..(Len(nodes) - 1) :
          /\ nodes' = to_vmess_nodes(update_nodes(nodes))
          /\ sort_column' = sort_column
          /\ sort_direction' = IF sort_column # "None" THEN sort_direction ELSE "Ascending"
          /\ sorted_nodes' = rebuild_sorted_view(nodes', sort_column', sort_direction')
          /\ selected' = IF position_of(sorted_nodes', active) >= 0
                         THEN position_of(sorted_nodes', active) ELSE 0
    /\ testing' = FALSE
    /\ current_test_type' = "None"
    /\ UNCHANGED nonAppVars

\* Results are applied, the program is left and started again.
NextSave ==
    \/ AppUpdateLatency
    \/ AppReload

SpecSave == InitApp /\ [][NextSave]_vars

\* ======================================================================
\* Claims
\* ======================================================================
Holding == {w \in Workers : wpc[w] \in HoldingPcs}
Gets(log) == SelectSeq(log, LAMBDA e : e.op = "get")

\* C1: in every reachable state of a run of test_all_latencies the number of
\* workers that hold an admission permit (from their spawn to drop(permit):
\* before the start check, probing, settled, waiting to send) is at most
\* max_concurrent.
C1_PermitBound == Cardinality(Holding) <= max_concurrent

\* C1 witness: more nodes than permits, every permit held by a probing worker
\* and the coordinator waiting at the gate for the next node.
C1_Witness ==
    /\ max_concurrent >= 1 /\ max_concurrent < node_count
    /\ cpc = "acquire" /\ index = max_concurrent /\ permits = 0
    /\ \A w \in 0..(index - 1) : wpc[w] = "probing"

\* C2: while the token has not fired no index has more than one probe begun or
\* more than one result enqueued, and when test_all_latencies has returned
\* without the token having fired, every index 0..M-1 has exactly one probe
\* begun and exactly one result enqueued.
C2_OneResultPerIndex ==
    ~cancel_flag =>
        /\ \A w \in Workers : dispatched[w] <= 1 /\ enqueued[w] <= 1
        /\ cpc = "done" => \A w \in Workers : dispatched[w] = 1 /\ enqueued[w] = 1

\* C2 witness: a batch of more nodes than permits has returned, the token
\* unfired.
C2_Witness ==
    /\ cpc = "done" /\ ~cancel_flag
    /\ node_count = MaxNodes /\ max_concurrent < node_count
    /\ \A w \in Workers : enqueued[w] = 1

\* C3: when test_all_latencies has returned, every worker it spawned has
\* finished (no worker is at any position between its spawn and its end).
C3_ReturnsAfterWorkers ==
    cpc = "done" => \A w \in Workers : wpc[w] \in {"none", "finished"}

\* C3 witness: the call has returned after a cancellation, with a worker that
\* probed and discarded its result and a node that was never spawned.
C3_Witness ==
    /\ cpc = "done" /\ cancel_flag
    /\ wpc[0] = "finished" /\ dispatched[0] = 1 /\ enqueued[0] = 0
    /\ wpc[node_count - 1] = "none"

\* C4: once the token has fired no probe begins (no worker passes its
\* start-of-task check), a probe that is running stays running until it
\* settles by itself, and a result is only ever enqueued for a node whose probe
\* began, hence never for a node that was not admitted when the token fired.
C4_NoAdmissionAfterFire ==
    /\ [][cancel_flag =>
            /\ dispatched' = dispatched
            /\ \A w \in Workers :
                /\ wpc[w] \in {"none", "start"} => wpc'[w] \notin {"getport", "probing"}
                /\ wpc[w] = "getport" => wpc'[w] \in {"getport", "probing"}
                /\ wpc[w] = "probing" => wpc'[w] \in {"probing", "settled"}]_vars
    /\ [](\A w \in Workers : enqueued[w] > 0 => dispatched[w] > 0)

\* C4 witness: the token has fired, a worker admitted around the firing has
\* returned at its start check without probing while another probe still runs.
C4_Witness ==
    /\ cancel_flag
    /\ \E w \in Workers : wpc[w] = "drop" /\ dispatched[w] = 0
    /\ \E v \in Workers : wpc[v] = "probing"

\* C5 (as claimed): no result is enqueued on the channel after the batch's
\* token has fired.
C5_NoSendAfterFire == late = {}

\* C6: max_concurrent = K with 1 <= K < M, the token fired, exactly K nodes
\* admitted and none of their probes settled: from there on test_all_latencies
\* returns, and no probe was begun for any node of index K or more.
FiredAtK ==
    /\ cancel_flag
    /\ max_concurrent >= 1 /\ max_concurrent < node_count
    /\ index = max_concurrent
    /\ \A w \in 0..(index - 1) : wpc[w] \in {"start", "getport", "probing"}

C6_TerminatesAfterCancel ==
    FiredAtK ~> (cpc = "done" /\ \A w \in Workers : w >= max_concurrent => dispatched[w] = 0)

\* C6 witness: the token fired with all K probes in flight and the coordinator
\* waiting at the gate for node K.
C6_Witness ==
    /\ FiredAtK /\ cpc = "acquire"
    /\ \A w \in 0..(index - 1) : wpc[w] = "probing"

\* C7 (as claimed): of two consecutive sequential calls of get_test_port with
\* no reset between them, the second returns the floor if the first returned
\* the ceiling, and otherwise one more than the first; in particular the call
\* after the wrapping call returns 10801.
C7_IncreaseThenWrap ==
    \A i \in 1..(Len(portlog) - 1) :
        (portlog[i].op = "get" /\ portlog[i + 1].op = "get") =>
            portlog[i + 1].port = IF portlog[i].port = PortCeiling THEN PortFloor
                                  ELSE portlog[i].port + 1

\* C8: in a sequential history the first get_test_port after a
\* reset_port_counter returns 10800 and the one after it 10801.
C8_ResetThenFloor ==
    \A i \in 1..Len(portlog) :
        portlog[i].op = "reset" =>
            /\ (i + 1 <= Len(portlog) /\ portlog[i + 1].op = "get")
                    => portlog[i + 1].port = PortFloor
            /\ (i + 2 <= Len(portlog) /\ portlog[i + 1].op = "get" /\ portlog[i + 2].op = "get")
                    => portlog[i + 2].port = PortFloor + 1

\* C8 witness: a call that wrapped, then a reset, then two calls.
C8_Witness ==
    \E i \in 1..(Len(portlog) - 3) :
        /\ portlog[i].op = "get" /\ portlog[i].wrapped
        /\ portlog[i + 1].op = "reset"
        /\ portlog[i + 2].op = "get" /\ portlog[i + 3].op = "get"

\* C9: in an HTTP batch the ports get_test_port returned, in the order the
\* calls took effect, strictly increase, and the ports held by workers that
\* are inside their probe at the same time are pairwise distinct.
C9_PortsDistinctIncreasing ==
    test_type = "Http" =>
        /\ \A i, j \in 1..Len(Gets(portlog)) :
                i < j => Gets(portlog)[i].port < Gets(portlog)[j].port
        /\ \A w, v \in Workers :
                (w # v /\ wport[w] # 0 /\ wport[v] # 0) => wport[w] # wport[v]

\* C9 witness: two probes in flight at once, the worker of the later node
\* having been served first.
C9_Witness ==
    /\ test_type = "Http" /\ node_count >= 2
    /\ wpc[0] = "probing" /\ wpc[1] = "probing"
    /\ wport[1] # 0 /\ wport[0] > wport[1]

\* C10 (as claimed): with several workers inside get_test_port around the
\* ceiling the counter is stored back to the floor at most once and no port is
\* returned to two callers.
C10_AtomicWrap ==
    /\ Cardinality({i \in 1..Len(portlog) : portlog[i].wrapped}) <= 1
    /\ \A i, j \in 1..Len(Gets(portlog)) :
            i # j => Gets(portlog)[i].port # Gets(portlog)[j].port

\* C11: at most one batch is active: while the task of an earlier batch has
\* not returned from test_all_latencies, no second task of it exists (in
\* particular not after cancel_test followed by a test key).
C11_AtMostOneBatch == ~(parked.live /\ parked.cpc # "done" /\ cpc # "done")

\* C12: every step of update_latency with a result {index: i, test_type,
\* latency} whose index i the canonical list has sets exactly that latency
\* field of node i, in the canonical list and in the view entry whose
\* original_index is i, and changes nothing else: every other node and every
\* other field of node i, the length and the order of both lists, selection,
\* sort settings, testing and current_test_type stay as they were.
C12_UpdateFrame ==
    [][\A r \in AppResults :
        (update_latency(r) /\ r.index < Len(nodes)) =>
        LET i == r.index
            Field(n) == IF r.test_type = "Tcp" THEN n.tcp_latency ELSE n.http_latency
            Other(n) == IF r.test_type = "Tcp" THEN n.http_latency ELSE n.tcp_latency
        IN  /\ Len(nodes') = Len(nodes) /\ Len(sorted_nodes') = Len(sorted_nodes)
            /\ \A k \in 1..Len(nodes) :
                /\ nodes'[k].name = nodes[k].name
                /\ Other(nodes'[k]) = Other(nodes[k])
                /\ Field(nodes'[k]) = IF k = i + 1 THEN r.latency ELSE Field(nodes[k])
            /\ \A p \in 1..Len(sorted_nodes) :
                /\ sorted_nodes'[p].original_index = sorted_nodes[p].original_index
                /\ sorted_nodes'[p].node.name = sorted_nodes[p].node.name
                /\ Other(sorted_nodes'[p].node) = Other(sorted_nodes[p].node)
                /\ Field(sorted_nodes'[p].node) =
                        IF sorted_nodes[p].original_index = i THEN r.latency
                        ELSE Field(sorted_nodes[p].node)
            /\ UNCHANGED <<sort_column, sort_direction, selected, testing, current_test_type>>
      ]_vars

\* C12 witness: node 0 stands second in the view and carries a TCP latency
\* that only update_latency can have written, in the canonical list and in the
\* view; its HTTP latency and the other node's TCP latency are measured too,
\* with a different value.
C12_Witness ==
    /\ Len(nodes) = 2 /\ Len(sorted_nodes) = 2 /\ sorted_nodes[2].original_index = 0
    /\ nodes[1].tcp_latency = Success(42)
    /\ sorted_nodes[2].node.tcp_latency = Success(42)
    /\ nodes[1].http_latency = TimedOut
    /\ nodes[2].tcp_latency = TimedOut
    /\ selected = 1

\* C13: every step of update_latency whose index the canonical list does not
\* have (index >= number of nodes) leaves the canonical list, the sorted view
\* and every other field of the App unchanged.
C13_StaleIndexDropped ==
    [][\A r \in AppResults :
        (update_latency(r) /\ r.index >= Len(nodes)) =>
            UNCHANGED <<nodes, sorted_nodes, sort_column, sort_direction, selected,
                        testing, current_test_type>>]_vars

\* C13 witness: the list was replaced by a shorter one, whose only node has
\* been measured as timed out in both fields, so that a result for index 1
\* (and any Success for index 0) is stale or new.
C13_Witness ==
    /\ Len(nodes) = 1 /\ Len(sorted_nodes) = 1
    /\ nodes[1].tcp_latency = TimedOut /\ nodes[1].http_latency = TimedOut
    /\ sorted_nodes[1].node.tcp_latency = TimedOut

\* C14: in every state the App operations reach, the view has exactly one entry
\* for every canonical index 0..len(nodes)-1 and no other entry, and every
\* entry carries the tcp and http latency of nodes[original_index].
C14_ViewMatchesCanonical ==
    /\ Len(sorted_nodes) = Len(nodes)
    /\ {sorted_nodes[p].original_index : p \in 1..Len(sorted_nodes)} = 0..(Len(nodes) - 1)
    /\ \A p \in 1..Len(sorted_nodes) :
        LET oi == sorted_nodes[p].original_index
        IN  oi + 1 \in 1..Len(nodes) =>
                /\ sorted_nodes[p].node.tcp_latency = nodes[oi + 1].tcp_latency
                /\ sorted_nodes[p].node.http_latency = nodes[oi + 1].http_latency

\* C14 witness: two nodes, the view in the opposite order of the canonical
\* list, the two nodes with different measured latencies in both fields.
C14_Witness ==
    /\ Len(nodes) = 2 /\ Len(sorted_nodes) = 2
    /\ sorted_nodes[1].original_index = 1 /\ sorted_nodes[2].original_index = 0
    /\ nodes[1].tcp_latency = TimedOut /\ nodes[2].tcp_latency = Success(42)
    /\ nodes[1].http_latency = Success(42) /\ nodes[2].http_latency = NotTested

\* The latency the current sort column shows for the view entry at position p,
\* and the same for the canonical node of index i.
ViewLatency(p) ==
    IF sort_column = "Tcp" THEN sorted_nodes[p].node.tcp_latency
    ELSE sorted_nodes[p].node.http_latency
NodeLatency(i) ==
    IF sort_column = "Tcp" THEN nodes[i + 1].tcp_latency ELSE nodes[i + 1].http_latency
ByLatency == sort_column \in {"Tcp", "Http"}

\* C15: a view sorted ascending by a latency column holds every node once, no
\* TimedOut or NotTested entry before a Success entry, no NotTested entry
\* before a TimedOut entry, and Success entries in ascending order of ms; the
\* nodes Success(50), Success(10), TimedOut, NotTested come out as Success(10),
\* Success(50), TimedOut, NotTested.
C15_AscendingOrder ==
    (ByLatency /\ sort_direction = "Ascending") =>
        /\ {sorted_nodes[p].original_index : p \in 1..Len(sorted_nodes)} = 0..(Len(nodes) - 1)
        /\ Len(sorted_nodes) = Len(nodes)
        /\ \A p \in 1..Len(sorted_nodes) :
                ViewLatency(p) = NodeLatency(sorted_nodes[p].original_index)
        /\ \A p, q \in 1..Len(sorted_nodes) : p < q =>
            LET a == ViewLatency(p)
                b == ViewLatency(q)
            IN  /\ b.tag = "Success" => a.tag = "Success" /\ a.ms <= b.ms
                /\ b.tag = "TimedOut" => a.tag # "NotTested"
        /\ (Len(nodes) = 4 /\ [i \in 1..4 |-> NodeLatency(i - 1)]
                                = <<Success(50), Success(10), TimedOut, NotTested>>)
            => [p \in 1..4 |-> ViewLatency(p)]
                    = <<Success(10), Success(50), TimedOut, NotTested>>

\* C15 witness: the nodes Success(50), Success(10), TimedOut, NotTested sorted
\* ascending by their TCP latency.
C15_Witness ==
    /\ sort_column = "Tcp" /\ sort_direction = "Ascending" /\ Len(nodes) = 4
    /\ [i \in 1..4 |-> nodes[i].tcp_latency] = <<Success(50), Success(10), TimedOut, NotTested>>
    /\ [p \in 1..4 |-> sorted_nodes[p].original_index] = <<1, 0, 2, 3>>

StatusRank(l) == IF l.tag = "Success" THEN 0 ELSE IF l.tag = "TimedOut" THEN 1 ELSE 2
LatencyBefore(a, b) ==
    StatusRank(a) < StatusRank(b) \/ (StatusRank(a) = StatusRank(b) /\ a.ms < b.ms)
StrictlyBefore(a, b) ==
    IF sort_column = "None" THEN a.original_index < b.original_index
    ELSE LET lt(x, y) == IF sort_column = "Name" THEN x.node.name < y.node.name
                         ELSE IF sort_column = "Tcp"
                              THEN LatencyBefore(x.node.tcp_latency, y.node.tcp_latency)
                         ELSE LatencyBefore(x.node.http_latency, y.node.http_latency)
         IN  IF sort_direction = "Descending" THEN lt(b, a) ELSE lt(a, b)
ViewInOrder ==
    \A p, q \in 1..Len(sorted_nodes) :
        p < q => ~StrictlyBefore(sorted_nodes[q], sorted_nodes[p])

\* The batch is completed as the consumer sees it: every one of the M results
\* was sent once and has been received and applied (the channel is empty and
\* every node's latency of the test type is Success or TimedOut, in the list
\* and in the view), testing is false, current_test_type is cleared and the
\* view is in the order of the current sort settings.
Completed ==
    /\ \A w \in Workers : enqueued[w] = 1
    /\ chan = <<>>
    /\ \A i \in 1..node_count :
        is_tested(IF test_type = "Tcp" THEN nodes[i].tcp_latency ELSE nodes[i].http_latency)
    /\ Cardinality({p \in 1..Len(sorted_nodes) :
            is_tested(IF test_type = "Tcp" THEN sorted_nodes[p].node.tcp_latency
                      ELSE sorted_nodes[p].node.http_latency)}) = node_count
    /\ ~testing
    /\ current_test_type = "None"
    /\ ViewInOrder

InTrace(step) == \E k \in 1..Len(ptrace) : ptrace[k] = step

C19_OnlySuccessOrTimedOut ==
    /\ ppc = "returned" => wlat[0].tag \in {"Success", "TimedOut"}
    /\ \A k \in 1..Len(chan) : chan[k].latency.tag \in {"Success", "TimedOut"}
    /\ enqueued[0] <= 1
    /\ wpc[0] # "finished"
    /\ wpc[0] = "drop" => enqueued[0] = 1
    /\ wpc[0] # "drop" => ENABLED NextProbe

\* C19 witness: an HTTP probe whose client construction failed has delivered
\* its one result, TimedOut.
C19_Witness ==
    /\ test_type = "Http" /\ wpc[0] = "drop" /\ enqueued[0] = 1
    /\ InTrace("client_failed")
    /\ chan = <<LatencyResult(0, TimedOut, "Http")>>

\* C20: an HTTP probe that has returned has returned Success(ms) exactly if the
\* config was written, the helper became ready and the request came back with
\* a response whose status is in 200..299 (204 among them), and TimedOut in
\* every other case.
C20_SuccessIffRelayed2xx ==
    (test_type = "Http" /\ ppc = "returned") =>
        /\ wlat[0].tag = "Success" <=>
                /\ InTrace("config_written") /\ InTrace("helper_ready")
                /\ presp.kind = "response" /\ presp.status \in 200..299
        /\ wlat[0].tag # "Success" => wlat[0] = TimedOut

\* C20 witness: the request came back with 204 and the probe returned Success.
C20_Witness ==
    /\ test_type = "Http" /\ ppc = "returned"
    /\ presp = [kind |-> "response", status |-> 204]
    /\ wlat[0] = Success(42)

\* C21: a batch the test keys start, also after cancel_test, is handed a token
\* on which store(true) was never performed: its flag reads false at the start.
C21_FreshTokenUnfired ==
    [][\A tt \in {"Tcp", "Http"} :
          StartTest(tt) => (token' \notin fired' /\ ~cancel_flag')]_vars

\* A batch started after a cancellation: the earlier task's token is fired, the
\* new task's is not.
C21_Witness ==
    /\ batches = 2 /\ cpc = "reset" /\ ~cancel_flag /\ token \notin fired
    /\ parked.live /\ parked.cancel_flag /\ parked.token \in fired

\* C22: every batch has a token object of its own: two tasks never hold the
\* same Arc.
C22_OwnToken == parked.live => parked.token # token

\* C23: the result channel never holds more than ChannelCapacity results;
\* while it is full no step lengthens it and a worker in send stays there with
\* its result and its permit; and, nobody cancelling, the result of every
\* worker that waited on the full channel is eventually applied to its node.
C23_Backpressure ==
    /\ [](Len(chan) <= ChannelCapacity)
    /\ [][Len(chan) = ChannelCapacity =>
            /\ Len(chan') <= Len(chan)
            /\ \A w \in Workers : wpc[w] = "send" =>
                   /\ wpc'[w] = "send" /\ wlat'[w] = wlat[w]
                   /\ w \in Holding /\ permits' + Cardinality(Holding') = max_concurrent]_vars
    /\ \A w \in TailWorkers :
           (wpc[w] = "send" /\ Len(chan) = ChannelCapacity)
               ~> (is_tested(nodes[w + 1].tcp_latency) /\ enqueued[w] = 1)

\* The channel is full and a worker waits in send.
C23_Witness ==
    /\ Len(chan) = ChannelCapacity
    /\ \E w \in Workers : wpc[w] = "send" /\ is_tested(wlat[w])

\* A latency field of canonical node i, or of the view entry at position i,
\* that was tested and is NotTested after the step.
WentBack(i, tt) ==
    IF tt = "Http"
    THEN \/ is_tested(nodes[i].http_latency) /\ nodes'[i].http_latency = NotTested
         \/ is_tested(sorted_nodes[i].node.http_latency)
                /\ sorted_nodes'[i].node.http_latency = NotTested
    ELSE \/ is_tested(nodes[i].tcp_latency) /\ nodes'[i].tcp_latency = NotTested
         \/ is_tested(sorted_nodes[i].node.tcp_latency)
                /\ sorted_nodes'[i].node.tcp_latency = NotTested

\* C24: while a node lives, a latency field of it goes from Success or
\* TimedOut to NotTested only in the step of a test key that starts a batch of
\* that field's test type; the result the consumer applies is never NotTested,
\* and applying it returns no field to NotTested.
C24_NoBackward ==
    [][/\ \A i \in 1..Len(nodes) : \A tt \in {"Tcp", "Http"} :
              WentBack(i, tt) => StartTest(tt)
       /\ RecvResult =>
              /\ is_tested(Head(chan).latency)
              /\ \A i \in 1..Len(nodes) : \A tt \in {"Tcp", "Http"} : ~WentBack(i, tt)]_vars

\* A second batch has started and left the other type's field as the first
\* batch set it; its own result has been applied beside it.
C24_Witness ==
    /\ batches = 2 /\ test_type = "Http" /\ parked.test_type = "Tcp"
    /\ is_tested(nodes[1].tcp_latency) /\ is_tested(nodes[1].http_latency)
    /\ is_tested(sorted_nodes[1].node.tcp_latency)

\* C25: a worker task that ends abnormally is counted toward completion
\* without a delivered result: once test_all_latencies has returned and every
\* queued result has been received, the batch is over for the App as well.
C25_FailureCounted == (cpc = "done" /\ chan = <<>>) => ~testing

\* The canonical list and the view after update_latency(first) and then
\* update_latency(second).
AppliedInOrder(first, second) ==
    <<update_latency_nodes(update_latency_nodes(nodes, first), second),
      update_latency_sorted(update_latency_sorted(sorted_nodes, first), second)>>

\* C26: two results with different (index, test_type) keys, applied to the
\* App in either order, leave the same canonical list and the same view (the
\* same latency values under every original_index).
C26_OrderIndependent ==
    \A r1 \in AppResults : \A r2 \in AppResults :
        (r1.index # r2.index \/ r1.test_type # r2.test_type)
            => AppliedInOrder(r1, r2) = AppliedInOrder(r2, r1)

\* Results with different keys and different outcomes have been applied, to a
\* view that is ordered differently from the canonical list.
C26_Witness ==
    /\ Len(nodes) = 2
    /\ sorted_nodes[1].original_index = 1
    /\ nodes[1].tcp_latency = TimedOut /\ nodes[1].http_latency = Success(42)
    /\ is_tested(nodes[2].tcp_latency)

\* C27: a VmessNode converted to a SavedNode and back has the tcp_latency and
\* the http_latency it had, whichever of NotTested, TimedOut and Success(ms)
\* each of the two is.
C27_LatencyRoundTrip ==
    \A i \in 1..Len(nodes) :
        LET back == VmessNode_from(SavedNode_from(nodes[i]))
        IN  /\ back.tcp_latency = nodes[i].tcp_latency
            /\ back.http_latency = nodes[i].http_latency

\* The list has been saved and loaded (only the load sorts the view by the
\* results applied since the last sort) and shows TimedOut, Success and
\* NotTested in its fields as before.
C27_Witness ==
    /\ Len(nodes) = 2 /\ sort_column = "Tcp" /\ sort_direction = "Ascending"
    /\ nodes[1].tcp_latency = TimedOut /\ nodes[1].http_latency = Success(42)
    /\ nodes[2].tcp_latency = Success(42) /\ nodes[2].http_latency = NotTested
    /\ sorted_nodes[1].original_index = 1 /\ sorted_nodes[1].node = nodes[2]

\* The resets in the allocator's history, and the workers whose probe has made
\* its call of get_test_port.
Resets(log) == SelectSeq(log, LAMBDA e : e.op = "reset")
PastGetPort == {w \in Workers : dispatched[w] > 0 /\ wpc[w] \notin {"getport", "wrap"}}

\* C28: a batch resets the allocator once, before it admits a worker and
\* before any call of get_test_port; every HTTP probe that has passed its first
\* statement has called get_test_port once; in a TCP batch nobody calls it
\* and the counter stays where the reset put it.
C28_ResetOnceGetOnce ==
    /\ cpc = "reset" => (portlog = <<>> /\ \A w \in Workers : wpc[w] = "none")
    /\ cpc # "reset" => (Len(Resets(portlog)) = 1 /\ portlog[1].op = "reset")
    /\ test_type = "Http" =>
            /\ Len(Gets(portlog)) = Cardinality(PastGetPort)
            /\ cpc # "reset" => PORT_COUNTER = PortFloor + Len(Gets(portlog))
    /\ test_type = "Tcp" =>
            /\ Gets(portlog) = <<>>
            /\ cpc # "reset" => PORT_COUNTER = PortFloor
            /\ \A w \in Workers : wport[w] = 0

\* An HTTP batch has run to its end: one reset, then one call per probe.
C28_Witness ==
    /\ test_type = "Http" /\ node_count = 2 /\ cpc = "done"
    /\ Len(Resets(portlog)) = 1 /\ portlog[1].op = "reset"
    /\ Len(Gets(portlog)) = 2 /\ dispatched = [w \in 0..1 |-> 1]

\* The steps of an HTTP probe that went well, in the order of the function's
\* text, and the part of a trace made of such steps.
HttpOrder ==
    <<"config_written", "helper_spawned", "helper_ready", "proxy_built", "client_built",
      "request_sent">>
Advanced(tr) == SelectSeq(tr, LAMBDA e : \E k \in 1..Len(HttpOrder) : HttpOrder[k] = e)

\* C29: an HTTP probe has its port before any other step, then writes the
\* config, spawns the helper, waits for its port and issues one request, in
\* this order; a failed config write, spawn or readiness wait is the probe's
\* last step: no request was or will be issued and the probe returns TimedOut.
C29_HttpStepOrder ==
    test_type = "Http" =>
        /\ ptrace # <<>> =>
              /\ Len(Gets(portlog)) = 1
              /\ wport[0] = Gets(portlog)[1].port
        /\ Advanced(ptrace) = SubSeq(HttpOrder, 1, Len(Advanced(ptrace)))
        /\ InTrace("request_sent") => (presp # NoResponse /\ child = "killed")
        /\ ~InTrace("request_sent") => presp = NoResponse
        /\ \A f \in {"config_write_failed", "spawn_failed", "not_ready"} :
              InTrace(f) =>
                  /\ ptrace[Len(ptrace)] = f
                  /\ ~InTrace("request_sent")
                  /\ ppc = "returned"
                  /\ wlat[0] = TimedOut
                  /\ wpc[0] \in {"settled", "send", "drop"}

\* A probe has gone through all its steps and issued its request.
C29_Witness ==
    /\ test_type = "Http" /\ ptrace = HttpOrder /\ wport[0] # 0
    /\ presp.kind = "response" /\ attempts > 0

\* C30: wait_for_port makes at most WaitAttempts connection attempts, each
\* failed one counted; it ends at the first attempt that connects, and after
\* WaitAttempts failed ones it gives up: the wait can always go on or end, and
\* when it gave up the helper is killed, no guard was built and the probe
\* returned TimedOut.
C30_WaitTerminates ==
    /\ [](/\ attempts <= WaitAttempts
          /\ ppc = "wait" =>
                /\ child = "running"
                /\ ENABLED (HttpWaitAttempt \/ HttpWaitGiveUp)
                /\ attempts = WaitAttempts => ~ENABLED HttpWaitAttempt
          /\ InTrace("helper_ready") => (attempts < WaitAttempts /\ ~InTrace("not_ready"))
          /\ InTrace("not_ready") =>
                /\ attempts = WaitAttempts
                /\ child = "killed"
                /\ ~InTrace("helper_ready")
                /\ ppc = "returned" /\ wlat[0] = TimedOut)
    /\ [][(ppc = "wait" /\ ppc' = "wait") => attempts' = attempts + 1]_vars

\* The helper never opened its port: twenty attempts failed and it was killed.
C30_Witness ==
    /\ InTrace("not_ready") /\ attempts = WaitAttempts /\ child = "killed"
    /\ ptrace = <<"config_written", "helper_spawned", "not_ready">>

\* What a step that resets the latencies of test type tt must do to the two
\* lists and leave alone.
ClearFrame(tt) ==
    LET Field(n) == IF tt = "Tcp" THEN n.tcp_latency ELSE n.http_latency
        Other(n) == IF tt = "Tcp" THEN n.http_latency ELSE n.tcp_latency
    IN  /\ Len(nodes') = Len(nodes) /\ Len(sorted_nodes') = Len(sorted_nodes)
        /\ \A k \in 1..Len(nodes) :
              /\ Field(nodes'[k]) = NotTested
              /\ Other(nodes'[k]) = Other(nodes[k])
              /\ nodes'[k].name = nodes[k].name
        /\ \A p \in 1..Len(sorted_nodes) :
              /\ Field(sorted_nodes'[p].node) = NotTested
              /\ Other(sorted_nodes'[p].node) = Other(sorted_nodes[p].node)
              /\ sorted_nodes'[p].node.name = sorted_nodes[p].node.name
              /\ sorted_nodes'[p].original_index = sorted_nodes[p].original_index
        /\ UNCHANGED <<sort_column, sort_direction, selected, testing, current_test_type>>

\* C31: clear_tcp_latencies sets the TCP latency of every node to NotTested
\* in the canonical list and in the view and leaves the HTTP latencies, the
\* order of both lists, the selection and the sort settings as they were;
\* clear_http_latencies does the same with the two fields exchanged.
C31_ClearFrame ==
    [][/\ clear_tcp_latencies => ClearFrame("Tcp")
       /\ clear_http_latencies => ClearFrame("Http")]_vars

\* The view stands in the order a sort by TCP latency gave it (node 1 before
\* node 0), the TCP latencies are reset, the HTTP latencies still measured.
C31_Witness ==
    /\ Len(nodes) = 2 /\ sort_column = "Tcp" /\ sort_direction = "Ascending"
    /\ sorted_nodes[1].original_index = 1
    /\ \A k \in 1..2 : nodes[k].tcp_latency = NotTested
                        /\ sorted_nodes[k].node.tcp_latency = NotTested
    /\ nodes[1].http_latency = Success(42) /\ nodes[2].http_latency = TimedOut
    /\ selected = 1

\* C32: once cancel_test has fired the token of a batch, update_latency is not
\* invoked with a result of that batch: the consumer applies no result after
\* the token of the only batch there is has fired.
C32_NoResultAfterCancel == [][RecvResult => ~cancel_flag]_vars

\* C33: while a task that was not cancelled has a node whose result it has not
\* sent yet (and which therefore has not been applied), testing is true: the
\* consumer declares no completion before the running batch's last result.
C33_NoEarlyCompletion ==
    /\ (~cancel_flag /\ \E w \in Workers : enqueued[w] = 0) => testing
    /\ (parked.live /\ ~parked.cancel_flag /\ \E w \in DOMAIN parked.enqueued :
            parked.enqueued[w] = 0) => testing

\* -------------------------------------- a batch cancelled in a sorted view
\* main.rs:175-178: Ctrl+C while a batch runs over a view that is sorted by
\* the column under test (or is unsorted): the steps of Spec from InitRun.
SpecStop == InitRun /\ [][Next]_vars

\* C34: whenever no test is in progress (testing = false), the view is in the
\* order of the current sort column and direction (by original_index when the
\* column is None), also after cancel_test: no entry stands behind an entry
\* that sorts strictly after it.
C34_SortedWhenIdle == ~testing => ViewInOrder

\* ------------------------------------- the test keys: two HTTP batches
\* The first test key after the program's start is 'T', with --parallel 1 and
\* one node in the list.
InitHttp ==
    /\ Init
    /\ PORT_COUNTER = PortFloor
    /\ max_concurrent = 1
    /\ node_count = 1
    /\ test_type = "Http"

SpecHttp == InitHttp /\ [][NextUI]_vars

\* The ports held by the HTTP probes in flight of the task in focus and of
\* the other task: a worker holds its port from get_test_port to the return
\* of test_node_http_latency.
HeldHere == {w \in Workers : test_type = "Http" /\ wpc[w] = "probing"}
HeldThere ==
    IF parked.live /\ parked.test_type = "Http"
    THEN {v \in DOMAIN parked.wpc : parked.wpc[v] = "probing"}
    ELSE {}

\* C35: no two HTTP probes in flight at the same time use the same local port
\* (and so the same config path /tmp/xray_test_{port}.json), whichever batch
\* they belong to; in particular a probe of a batch started after a cancel
\* never gets a port an in-flight probe of the cancelled batch still holds.
C35_NoSharedPort ==
    /\ \A w, v \in HeldHere : w # v => wport[w] # wport[v]
    /\ \A w \in HeldHere : \A v \in HeldThere : wport[w] # parked.wport[v]

\* ----------------------------------------------------- --parallel 0
\* The claim as it stands: with max_concurrent = 0 test_all_latencies never
\* returns.
C36_NeverReturns == max_concurrent = 0 => cpc # "done"

\* C36: with max_concurrent = 0 and a non-empty node list no probe is ever
\* admitted and no result is ever delivered, testing stays true until the user
\* cancels, and a coordinator that has reached the admission gate stays there
\* for ever, also when the token is fired afterwards (it returns only when the
\* token was fired before its first look at the flag).
C36_ZeroPermits ==
    /\ [](max_concurrent = 0 =>
            /\ \A w \in Workers : wpc[w] = "none" /\ dispatched[w] = 0 /\ enqueued[w] = 0
            /\ chan = <<>>
            /\ testing \/ fired # {})
    /\ [][max_concurrent = 0 /\ cpc = "acquire" => cpc' = "acquire"]_vars

\* The coordinator is at the gate of a semaphore without permits, the user
\* has cancelled, and the coordinator is still there.
C36_Witness ==
    /\ max_concurrent = 0
    /\ node_count = MaxNodes
    /\ cpc = "acquire"
    /\ cancel_flag
    /\ ~testing

\* ------------------------------------------ the refresh key and a batch
\* What fetch_subscription can return: up to MaxFetched nodes, nothing tested,
\* with names of the old list or new ones.
Fetched ==
    UNION {[1..n -> {VmessNode(k) : k \in 1..(MaxFetched + 1)}] : n \in 0..MaxFetched}

\* main.rs:208-215: 'r' while neither a refresh nor a test is under way (and a
\* subscription URL is set): refreshing = true, the list is cleared, and the
\* handler awaits fetch_subscription; the spawned tasks go on meanwhile.
RefreshBegin ==
    /\ ~refreshing
    /\ ~testing
    /\ drained
    /\ refreshing' = TRUE
    /\ clear_nodes
    /\ UNCHANGED <<allocVars, paramVars, app_token, fired, drained, subject, origin, token,
                   batches, parked, probeVars, cancel_flag, permits, coordVars, wpc,
                   wport, wlat, chan, histVars>>

\* main.rs:217-231: fetch_subscription has returned: Ok(nodes) is handed to
\* set_nodes, Err leaves the list cleared; refreshing = false, and the loop
\* goes back to the channel.
RefreshEnd ==
    /\ refreshing
    /\ refreshing' = FALSE
    /\ drained' = (chan = <<>>)
    /\ \/ \E ns \in Fetched : \E active \in -1..(Len(ns) - 1) : set_nodes(ns, active)
       \/ UNCHANGED appVars
    /\ UNCHANGED <<allocVars, paramVars, app_token, fired, subject, origin, token, batches,
                   parked, probeVars, cancel_flag, permits, coordVars, wpc, wport, wlat,
                   chan, histVars>>

\* The first test key after the program's start is 't', with --parallel 1 and
\* one node in the list.
InitRefresh ==
    /\ Init
    /\ PORT_COUNTER = PortFloor
    /\ max_concurrent = 1
    /\ node_count = 1
    /\ test_type = "Tcp"

NextRefresh ==
    \/ NextUI
    \/ RefreshBegin
    \/ RefreshEnd

SpecRefresh == InitRefresh /\ [][NextRefresh]_vars

\* testing and refreshing are never both true, and no step taken while testing
\* is true replaces or clears the list.
ListKeptWhileTesting ==
    /\ [](~(testing /\ refreshing))
    /\ [][testing => names(nodes') = names(nodes)]_vars

\* C37: testing and refreshing are never both true, the list is not replaced
\* or cleared while testing is true, and every result the consumer applies
\* while testing is true carries an index that, in the list, is the node the
\* result was measured on.
C37_IndexMeansProbedNode ==
    /\ ListKeptWhileTesting
    /\ [][(RecvResult /\ testing /\ Head(chan).index < Len(nodes))
            => nodes[Head(chan).index + 1].name = Head(origin)]_vars

\* ------------------------------------------------------ the selection
\* C38: after any sequence of App operations (select_next, select_previous,
\* cycle_sort, toggle_sort_direction, set_nodes, clear_nodes, update_latency,
\* resort) the selection is in range: selected < len(sorted_nodes) when the
\* view is not empty, selected = 0 when it is empty.
C38_SelectionInRange ==
    IF sorted_nodes = <<>> THEN selected = 0
    ELSE selected >= 0 /\ selected < Len(sorted_nodes)

\* The last entry of a full view is selected, and a result has been applied.
C38_Witness ==
    /\ Len(sorted_nodes) = MaxAppNodes
    /\ selected = MaxAppNodes - 1
    /\ \E p \in 1..Len(sorted_nodes) : sorted_nodes[p].node.tcp_latency # NotTested

====
